---- MODULE Spec2Model ----
(***************************************************************************)
(* NyayBot: the retrieval-augmented answering pipeline.                    *)
(*                                                                         *)
(*   Translator         app/nlp_core/translator.py                         *)
(*   DocumentRetriever  app/nlp_core/retriever.py                          *)
(*   AnswerGenerator    app/nlp_core/generator.py                          *)
(*   QAService          app/services/qa_service.py                         *)
(*                                                                         *)
(* Texts are TLA+ strings; Len, \o and SubSeq act on them character by      *)
(* character.  The texts the operations are given are over the characters  *)
(* U+0000..U+00FE.  A Python Optional is a sequence of length 0 (None) or  *)
(* 1.                                                                      *)
(*                                                                         *)
(* The specifications share the variables:                                 *)
(*   SpecTranslator  direct calls on one Translator object                 *)
(*   SpecRetriever   one DocumentRetriever: constructor, load_index,       *)
(*                   build_index (with save_index) in one thread and       *)
(*                   retrieve in another, plus the two files on disk and   *)
(*                   the ingestion script writing them in another process  *)
(*   Spec            the server: QAService construction, then              *)
(*                   answer_question runs, stage by stage                  *)
(*   SpecContext     direct calls of get_context_for_generation            *)
(*   SpecBatch       the server running batch_answer_questions             *)
(*   SpecService     the server serving health_check, get_document_summary *)
(*                   and answer_question requests                          *)
(*   SpecRace        two threads calling the cached translate methods at   *)
(*                   once                                                  *)
(*   SpecDetect      direct calls of detect_language                       *)
(*   SpecLive        the server's answer_question runs under fairness,     *)
(*                   with capability calls that may never return           *)
(*   SpecApi         the server behind the endpoints of app/main.py        *)
(*   SpecSources     the server over a vector store of full-size chunks    *)
(*   SpecIngest      scripts/ingest_data.py: DocumentProcessor splitting   *)
(*                   and labelling one document                            *)
(***************************************************************************)
EXTENDS Integers, Sequences, FiniteSets, TLC

VARIABLES
    cache_to,        \* lru_cache of Translator.translate_to_english
    cache_from,      \* lru_cache of Translator.translate_from_english
    cap_status,      \* per cache key: outcome of the latest capability invocation
    tr_last,         \* the latest direct Translator call and what it returned
    index,           \* DocumentRetriever.index (Optional: sequence of vectors)
    documents,       \* DocumentRetriever.documents
    metadata,        \* DocumentRetriever.metadata
    index_file,      \* vector_store/faiss_index.bin (Optional)
    metadata_file,   \* vector_store/metadata.pkl (Optional)
    mut,             \* the thread running __init__ / load_index / build_index
    ret,             \* the thread running retrieve
    gens,            \* which operation last wrote each field and each file
    aq,              \* the answer_question run of the server
    cx,              \* the latest direct get_context_for_generation call
    batch,           \* the batch_answer_questions call of the server
    hc,              \* the latest health_check call and its status dictionary
    ds,              \* the get_document_summary call of the server
    race,            \* two threads calling the cached translate methods at once
    http,            \* the request an HTTP endpoint is serving and its reply
    ing,             \* the ingestion run: DocumentProcessor and its chunk documents
    numpy            \* the major version of the NumPy the process runs with

tvars == <<cache_to, cache_from, cap_status, tr_last>>
rvars == <<index, documents, metadata, index_file, metadata_file, mut, ret, gens>>
vars == <<cache_to, cache_from, cap_status, tr_last, index, documents, metadata,
          index_file, metadata_file, mut, ret, gens, aq, cx, batch, hc, ds, race,
          http, ing, numpy>>

(***************************************************************************)
(* Bounds of the model.                                                    *)
(***************************************************************************)
\* lru_cache(maxsize=1000) holds LruMaxsize entries here, so that eviction
\* happens with the few keys the model calls the translator with.
LruMaxsize == 2
\* Operations (load_index, build_index) one retriever object runs after
\* its constructor.
MaxOps == 1
\* Largest top_k a caller passes.
MaxTopK == 2
\* answer_question runs the server serves.
MaxRuns == 2

None == <<>>
Some(x) == <<x>>
IsNone(o) == Len(o) = 0
Val(o) == o[1]

Min(a, b) == IF a <= b THEN a ELSE b
Range(s) == {s[i] : i \in 1..Len(s)}

(***************************************************************************)
(* Text helpers.                                                           *)
(***************************************************************************)
CharAt(t, i) == SubSeq(t, i, i)
Chars(t) == {CharAt(t, i) : i \in 1..Len(t)}

\* The characters str.isspace() holds for: U+0009..U+000D (tab, line feed,
\* vertical tab, form feed, carriage return), U+001C..U+001F, the space,
\* U+0085 and U+00A0.
WhitespaceChars == "\t\n\f\r  "
Whitespace == Chars(WhitespaceChars)
IsWhitespace(c) == c \in Whitespace

\* str.strip()
Strip(t) ==
    LET idx == {i \in 1..Len(t) : ~IsWhitespace(CharAt(t, i))}
    IN IF idx = {} THEN ""
       ELSE SubSeq(t, CHOOSE i \in idx : \A j \in idx : i <= j,
                      CHOOSE i \in idx : \A j \in idx : i >= j)

\* Python: `not text or not text.strip()`
IsBlank(t) == Len(t) = 0 \/ Len(Strip(t)) = 0

\* The cased letters: SmallChars[i] and CapitalChars[i] are the two cases
\* of one letter; the other characters str.islower() holds for are
\* OtherLowerChars.
SmallChars == "abcdefghijklmnopqrstuvwxyzàáâãäåæçèéêëìíîïðñòóôõöøùúûüýþ"
CapitalChars == "ABCDEFGHIJKLMNOPQRSTUVWXYZÀÁÂÃÄÅÆÇÈÉÊËÌÍÎÏÐÑÒÓÔÕÖØÙÚÛÜÝÞ"
OtherLowerChars == "ªµºßÿ"

LowerLetters == Chars(SmallChars) \cup Chars(OtherLowerChars)

\* c.islower() of one character
IsLower(c) == c \in LowerLetters

\* c.upper() of one character of U+0000..U+00FE.  The capital of ß is two
\* characters, that of µ is the Greek capital mu; ª and º have none.  The
\* capital of ÿ (U+00FF) is U+0178, a character no string of this language
\* can hold: ToUpper has no value for ÿ, which is why the texts stop at
\* U+00FE.
ToUpper(c) ==
    IF c \in Chars(SmallChars)
    THEN CharAt(CapitalChars, CHOOSE i \in 1..Len(SmallChars) : CharAt(SmallChars, i) = c)
    ELSE IF c = "ß" THEN "SS"
    ELSE IF c = "µ" THEN "Μ"
    ELSE IF c = "ÿ" THEN CHOOSE capital \in {} : TRUE
    ELSE c

\* c.lower() of one character
ToLower(c) ==
    IF c \in Chars(CapitalChars)
    THEN CharAt(SmallChars, CHOOSE i \in 1..Len(CapitalChars) : CharAt(CapitalChars, i) = c)
    ELSE c

RECURSIVE Lower(_)
\* str.lower()
Lower(t) == IF Len(t) = 0 THEN "" ELSE ToLower(CharAt(t, 1)) \o Lower(SubSeq(t, 2, Len(t)))

(***************************************************************************)
(* Translator (app/nlp_core/translator.py)                                 *)
(***************************************************************************)
SupportedLangs == {"en", "hi", "mr"}

\* What the stubbed googletrans capability returns when it succeeds: a
\* text that differs from its input and names the destination language.
StubTranslation(text, dest) == dest \o ":" \o text

\* Outcomes of one call of the translation capability.
CapOutcomes == {"ok", "fail"}

\* Mutation of translate_to_english_body: the except clause raises again.
translate_to_english_body_reraises(text, source_lang, cap) ==
    IF IsBlank(text) THEN [result |-> "", invoked |-> FALSE, raised |-> FALSE]
    ELSE IF source_lang = "en" THEN [result |-> text, invoked |-> FALSE, raised |-> FALSE]
    ELSE IF cap = "ok"
         THEN [result |-> StubTranslation(text, "en"), invoked |-> TRUE, raised |-> FALSE]
         ELSE [result |-> "", invoked |-> TRUE, raised |-> TRUE]

\* The body of translate_to_english, cap being the outcome the capability
\* has if the body invokes it.  invoked: the capability was called;
\* raised: the body ended with an exception (the except clause returns
\* the text, so it never does).
translate_to_english_body(text, source_lang, cap) ==
    IF IsBlank(text) THEN [result |-> "", invoked |-> FALSE, raised |-> FALSE]
    ELSE IF source_lang = "en" THEN [result |-> text, invoked |-> FALSE, raised |-> FALSE]
    ELSE IF cap = "ok"
         THEN [result |-> StubTranslation(text, "en"), invoked |-> TRUE, raised |-> FALSE]
         ELSE [result |-> text, invoked |-> TRUE, raised |-> FALSE]

\* The body of translate_from_english.
translate_from_english_body(text, target_lang, cap) ==
    IF IsBlank(text) THEN [result |-> "", invoked |-> FALSE, raised |-> FALSE]
    ELSE IF target_lang = "en" THEN [result |-> text, invoked |-> FALSE, raised |-> FALSE]
    ELSE IF cap = "ok"
         THEN [result |-> StubTranslation(text, target_lang), invoked |-> TRUE,
               raised |-> FALSE]
         ELSE [result |-> text, invoked |-> TRUE, raised |-> FALSE]

\* functools.lru_cache: a cache is a sequence of entries, least recently
\* used first.
CacheKeys(cache) == {cache[i].key : i \in 1..Len(cache)}
CachePos(cache, key) == CHOOSE i \in 1..Len(cache) : cache[i].key = key
CacheDrop(cache, i) == SubSeq(cache, 1, i - 1) \o SubSeq(cache, i + 1, Len(cache))

\* Mutation of lru_hit: the cache is never consulted.
lru_hit_never(cache, key) == FALSE

lru_hit(cache, key) == key \in CacheKeys(cache)

\* A call through the lru_cache wrapper: body is what the wrapped function
\* returns when it runs.  A hit returns the stored value and makes the
\* entry the most recently used; a miss runs the body, stores what it
\* returned, and evicts the least recently used entry of a full cache;
\* an exception of the body passes through and nothing is stored.
lru_cache(cache, key, body) ==
    IF lru_hit(cache, key)
    THEN LET i == CachePos(cache, key)
         IN [cache   |-> Append(CacheDrop(cache, i), cache[i]),
             result  |-> cache[i].val,
             invoked |-> FALSE,
             hit     |-> TRUE,
             raised  |-> FALSE]
    ELSE IF body.raised
    THEN [cache |-> cache, result |-> "", invoked |-> body.invoked,
          hit |-> FALSE, raised |-> TRUE]
    ELSE LET kept == IF Len(cache) >= LruMaxsize THEN Tail(cache) ELSE cache
         IN [cache   |-> Append(kept, [key |-> key, val |-> body.result]),
             result  |-> body.result,
             invoked |-> body.invoked,
             hit     |-> FALSE,
             raised  |-> FALSE]

translate_to_english(cache, text, source_lang, cap) ==
    lru_cache(cache, <<text, source_lang>>,
              translate_to_english_body(text, source_lang, cap))

translate_from_english(cache, text, target_lang, cap) ==
    lru_cache(cache, <<text, target_lang>>,
              translate_from_english_body(text, target_lang, cap))

\* Outcomes of the detection capability: a language code, or a failure.
DetectOutcomes == {"en", "hi", "mr", "fr", "fail"}

\* Mutation of detect_language: the detected code is returned as it is.
detect_language_unmapped(text, det) ==
    IF IsBlank(text) THEN [result |-> "en", invoked |-> FALSE]
    ELSE [result |-> det, invoked |-> TRUE]

detect_language(text, det) ==
    IF IsBlank(text) THEN [result |-> "en", invoked |-> FALSE]
    ELSE IF det \in SupportedLangs THEN [result |-> det, invoked |-> TRUE]
    ELSE [result |-> "en", invoked |-> TRUE]

(***************************************************************************)
(* Direct calls on the Translator, as a test with a stub capability makes  *)
(* them.  cap_status is the stub's record of its latest invocation for     *)
(* each key; tr_last is what the caller of the latest call observed.       *)
(***************************************************************************)
ToTexts == {"", "q"}
FromTexts == {" ", "A."}
CallLangs == {"en", "hi"}

ToKeys == ToTexts \X CallLangs
FromKeys == FromTexts \X CallLangs

NoCall ==
    [fn |-> "none", text |-> "", lang |-> "en", cap |-> "ok", result |-> "",
     invoked |-> FALSE, hit |-> FALSE, raised |-> FALSE,
     status_before |-> "none", cached_before |-> FALSE]

InitTranslator ==
    /\ cache_to = <<>>
    /\ cache_from = <<>>
    /\ cap_status = [to |-> [k \in ToKeys |-> "none"],
                     from |-> [k \in FromKeys |-> "none"]]
    /\ tr_last = NoCall

\* The stub's record after a call: unchanged unless the call invoked it.
StatusAfter(status, key, call, cap) ==
    IF call.invoked THEN [status EXCEPT ![key] = cap] ELSE status

\* What the caller of a translate call observes: the result, whether the
\* stub was invoked (and with which outcome), whether the call was served
\* from the cache; what the stub last did for the key before the call, and
\* whether the cache held an entry for the key when the call began.
Observed(fn, text, lang, cap, call, before, cached) ==
    [fn |-> fn, text |-> text, lang |-> lang,
     cap |-> IF call.invoked THEN cap ELSE "none",
     result |-> call.result, invoked |-> call.invoked, hit |-> call.hit,
     raised |-> call.raised,
     status_before |-> before, cached_before |-> cached]

CallTranslateToEnglish ==
    \E text \in ToTexts, lang \in CallLangs, cap \in CapOutcomes :
        LET call == translate_to_english(cache_to, text, lang, cap)
            key == <<text, lang>>
        IN /\ cache_to' = call.cache
           /\ cap_status' = [cap_status EXCEPT
                                !.to = StatusAfter(@, key, call, cap)]
           /\ tr_last' = Observed("to", text, lang, cap, call, cap_status.to[key],
                                   key \in CacheKeys(cache_to))
           /\ UNCHANGED <<http, numpy, ing, hc, ds, race, cx, batch, cache_from, index, documents, metadata, index_file,
                          metadata_file, mut, ret, gens, aq>>

CallTranslateFromEnglish ==
    \E text \in FromTexts, lang \in CallLangs, cap \in CapOutcomes :
        LET call == translate_from_english(cache_from, text, lang, cap)
            key == <<text, lang>>
        IN /\ cache_from' = call.cache
           /\ cap_status' = [cap_status EXCEPT
                                !.from = StatusAfter(@, key, call, cap)]
           /\ tr_last' = Observed("from", text, lang, cap, call, cap_status.from[key],
                                   key \in CacheKeys(cache_from))
           /\ UNCHANGED <<http, numpy, ing, hc, ds, race, cx, batch, cache_to, index, documents, metadata, index_file,
                          metadata_file, mut, ret, gens, aq>>

\* Texts detect_language is called with.
DetectTexts == {"", " ", "\n", "\t ", "q", "kya", "kay", "namaste"}

\* tr_last.cap holds the outcome of the detection capability, if invoked.
CallDetectLanguage ==
    \E text \in DetectTexts, det \in DetectOutcomes :
        LET call == detect_language(text, det)
        IN /\ tr_last' = [NoCall EXCEPT !.fn = "detect", !.text = text,
                                        !.cap = IF call.invoked THEN det ELSE "none",
                                        !.result = call.result,
                                        !.invoked = call.invoked]
           /\ UNCHANGED <<http, numpy, ing, hc, ds, race, cx, batch, cache_to, cache_from, cap_status, index, documents,
                          metadata, index_file, metadata_file, mut, ret, gens, aq>>

(***************************************************************************)
(* DocumentRetriever (app/nlp_core/retriever.py)                           *)
(*                                                                         *)
(* A vector is one coordinate of the stub embedding space; the distance    *)
(* of IndexFlatL2 is the squared difference.  The embedding capability is  *)
(* opaque: every call may return any vector of the space, or fail.         *)
(***************************************************************************)
\* The stub embedding space: two points.
Vectors == {0, 1}

L2(v, q) == (v - q) * (v - q)

\* The distance faiss reports for a result slot it could not fill (the
\* largest float32, 3.4028235e38); only its being larger than every real
\* distance matters here.
FLT_MAX == 1000000

\* The orders in which IndexFlatL2 may rank the stored vectors for query
\* vector q: every order of non-decreasing distance (faiss does not fix
\* the order of equidistant vectors).
Perms(n) == {p \in [1..n -> 1..n] : \A i, j \in 1..n : i # j => p[i] # p[j]}
SearchOrders(vecs, q) ==
    {p \in Perms(Len(vecs)) :
        \A i \in 1..(Len(vecs) - 1) : L2(vecs[p[i]], q) <= L2(vecs[p[i + 1]], q)}

\* faiss index.search(query_embedding, k) for one query: k slots of
\* (distance, 0-based position); the slots beyond the number of stored
\* vectors hold position -1.
faiss_search(vecs, q, k, order) ==
    [i \in 1..k |->
        IF i <= Len(vecs)
        THEN [dist |-> L2(vecs[order[i]], q), idx |-> order[i] - 1]
        ELSE [dist |-> FLT_MAX, idx |-> -1]]

\* Python list indexing with a possibly negative index.
PyValid(seq, idx) == idx < Len(seq) /\ idx >= 0 - Len(seq)
PyIndex(seq, idx) == IF idx >= 0 THEN seq[idx + 1] ELSE seq[Len(seq) + idx + 1]

\* The validity test of the result loop of retrieve.
valid_index(idx, docs) == idx < Len(docs)

\* The slots the result loop of retrieve keeps, each with its rank i + 1.
KeptSlots(hits, docs) ==
    SelectSeq([i \in 1..Len(hits) |-> [rank |-> i, hit |-> hits[i]]],
              LAMBDA c : valid_index(c.hit.idx, docs))

\* The result loop raises IndexError when a kept position is outside
\* one of the two lists.
CollectRaises(hits, docs, meta) ==
    \E i \in 1..Len(hits) :
        /\ valid_index(hits[i].idx, docs)
        /\ ~(PyValid(docs, hits[i].idx) /\ PyValid(meta, hits[i].idx))

\* The NumPy the process runs with: the repository names no version.
NumpyMajors == {1, 2}

\* The bits of the significand of the float in which 1 / (1 + dist) is
\* computed.  dist is a numpy.float32 scalar and 1 a Python int: under the
\* scalar promotion of NumPy 1.x the sum and the quotient are float64,
\* NumPy 2 keeps them in float32.
SignificandBits(major) == IF major = 1 THEN 53 ELSE 24

RECURSIVE FloatTail(_, _, _, _)
\* The binary expansion of r / den (0 <= r < den) after the bits already
\* taken into the significand: left more bits are taken, odd tells whether
\* the last bit taken is 1, and what remains is rounded to nearest, ties
\* to even.  The value is the sign of the rounding error.  The bits are
\* taken up to eight at a time.
FloatTail(r, den, left, odd) ==
    IF left > 0
    THEN LET taken == 2 ^ Min(left, 8)
         IN FloatTail((taken * r) % den, den, left - Min(left, 8),
                      ((taken * r) \div den) % 2 = 1)
    ELSE IF r = 0 THEN 0
    ELSE IF 2 * r > den \/ (2 * r = den /\ odd) THEN 1
    ELSE -1

RECURSIVE FloatLead(_, _, _)
\* The zeros of the expansion of r / den (0 < r < den) before its first 1;
\* bits is the width of the significand.
FloatLead(r, den, bits) ==
    IF 2 * r >= den THEN FloatTail(2 * r - den, den, bits - 1, TRUE)
    ELSE FloatLead(2 * r, den, bits)

\* The sign of (the float nearest to 1 / den) - 1 / den: 0 when the
\* quotient is a float, 1 when the float lies above it, -1 below.
FloatErr(den, bits) == IF den = 1 THEN 0 ELSE FloatLead(1, den, bits)

\* relevance_score = float(1 / (1 + dist)).  The value is kept as the
\* exact fraction num / den and the side err on which the float lies.
Relevance(dist) ==
    [num |-> 1, den |-> 1 + dist, err |-> FloatErr(1 + dist, SignificandBits(numpy))]

CollectResults(hits, docs, meta) ==
    LET kept == KeptSlots(hits, docs)
    IN [j \in 1..Len(kept) |->
            [rank            |-> kept[j].rank,
             document        |-> PyIndex(docs, kept[j].hit.idx),
             metadata        |-> PyIndex(meta, kept[j].hit.idx),
             distance        |-> kept[j].hit.dist,
             relevance_score |-> Relevance(kept[j].hit.dist)]]

(***************************************************************************)
(* The chunk lists and the persisted artifacts the model works with.       *)
(***************************************************************************)
Doc1 == "Art14"
Doc2 == "Art21"
Meta1 == [source |-> "const.txt", chunk_id |-> 0]
Meta2 == [source |-> "const.txt", chunk_id |-> 1]

\* Arguments of build_index(documents, metadata).
BuildInputs ==
    { <<<< >>, << >>>>,
      <<<<Doc1>>, <<Meta1>>>>,
      <<<<Doc1, Doc2>>, <<Meta1, Meta2>>>>,
      <<<<Doc1, Doc2>>, <<Meta1>>>> }

\* What a file holds: the bytes of a write that ran to its end (complete),
\* or what a write left that failed or was cut off after the file had
\* been opened and emptied.
IndexFile(vecs) == [vectors |-> vecs, complete |-> TRUE]
TornIndexFile == [vectors |-> << >>, complete |-> FALSE]
Pickle(docs, meta) == [documents |-> docs, metadata |-> meta, complete |-> TRUE]
TornPickle == [documents |-> << >>, metadata |-> << >>, complete |-> FALSE]

\* The vector store directory as the process finds it: no files, an
\* aligned pair, an aligned empty pair, two pairs of different record
\* counts, the vector file alone, and two pairs an earlier save_index
\* left with one file torn.
InitialDisks ==
    { [index_file |-> None, metadata_file |-> None],
      [index_file |-> Some(IndexFile(<<0>>)), metadata_file |-> Some(Pickle(<<Doc1>>, <<Meta1>>))],
      [index_file |-> Some(IndexFile(<< >>)), metadata_file |-> Some(Pickle(<< >>, << >>))],
      [index_file |-> Some(IndexFile(<<0, 1>>)), metadata_file |-> Some(Pickle(<<Doc1>>, <<Meta1>>))],
      [index_file |-> Some(IndexFile(<<0>>)), metadata_file |-> Some(Pickle(<< >>, << >>))],
      [index_file |-> Some(IndexFile(<<0>>)), metadata_file |-> None],
      [index_file |-> Some(IndexFile(<<0>>)), metadata_file |-> Some(TornPickle)],
      [index_file |-> Some(TornIndexFile), metadata_file |-> Some(Pickle(<<Doc1>>, <<Meta1>>))] }

\* gens: the origin of the content of each field and file: as the
\* constructor set it, the files found on disk, the n-th operation of
\* this object, a run of the ingestion script in another process, or (the
\* index between its creation and the add of build_index) no complete
\* state at all.
GenBlank == <<"blank">>
GenDisk == <<"disk">>
GenPartial == <<"partial">>
GenIngest == <<"ingest">>
OpGen(n) == <<"op", n>>

MutIdle ==
    [pc |-> "ctor", op |-> "none", result |-> "none", error |-> "",
     arg |-> << >>, from |-> GenBlank, emb |-> << >>, ops |-> 0, loaded |-> FALSE,
     ctor |-> TRUE]
RetIdle ==
    [pc |-> "idle", k |-> 0, q |-> 0, hits |-> << >>, i |-> 0, doc |-> "",
     result |-> "none", error |-> "",
     results |-> << >>, collected |-> FALSE, overlap |-> FALSE,
     g_index |-> GenBlank, n_index |-> 0,
     seen_documents |-> {}, seen_metadata |-> {}, loaded |-> FALSE,
     nearest |-> 0]

InitRetriever ==
    /\ index = None
    /\ documents = << >>
    /\ metadata = << >>
    /\ \E d \in InitialDisks :
          /\ index_file = d.index_file
          /\ metadata_file = d.metadata_file
    /\ mut = MutIdle
    /\ ret = RetIdle
    /\ gens = [index |-> GenBlank, documents |-> GenBlank, metadata |-> GenBlank,
               index_file |-> GenDisk, metadata_file |-> GenDisk]
    /\ numpy \in NumpyMajors

(***************************************************************************)
(* The thread that constructs the retriever and then calls load_index and  *)
(* build_index on it, one statement group per step.  mut.loaded tells      *)
(* whether a load_index or build_index of this object has returned,        *)
(* mut.ctor whether the constructor is still running: no other thread has  *)
(* the object before the constructor returns.                              *)
(***************************************************************************)
\* An exception leaves the operation.  Out of the constructor it leaves no
\* object behind: nothing can be called on it.
Raised(m, err) ==
    IF m.ctor THEN [m EXCEPT !.pc = "failed", !.result = "raised", !.error = err]
    ELSE [m EXCEPT !.pc = "idle", !.result = "raised", !.error = err]
Returned(m) ==
    [m EXCEPT !.pc = "idle", !.result = "ok", !.error = "", !.loaded = TRUE,
              !.ctor = FALSE]

\* __init__: SentenceTransformer(EMBEDDING_MODEL) loads the embedding
\* model, or raises; the fields are None / [] / []; load_index runs when
\* both files exist, otherwise only a warning is logged.
Construct ==
    /\ mut.pc = "ctor"
    /\ \E model_loaded \in BOOLEAN :
          IF ~model_loaded
          THEN mut' = Raised(mut, "OSError")
          ELSE IF ~IsNone(index_file) /\ ~IsNone(metadata_file)
          THEN mut' = [mut EXCEPT !.pc = "l_read_index", !.op = "load",
                                  !.result = "none", !.error = ""]
          ELSE mut' = [mut EXCEPT !.pc = "idle", !.op = "none", !.ctor = FALSE]
    /\ UNCHANGED <<http, numpy, ing, hc, ds, race, cx, batch, tvars, aq, index, documents, metadata, index_file,
                   metadata_file, ret, gens>>

\* A caller invokes load_index() on the constructed object.
LoadIndexCall ==
    /\ mut.pc = "idle"
    /\ mut.ops < MaxOps
    /\ mut' = [mut EXCEPT !.pc = "l_read_index", !.op = "load", !.ops = @ + 1,
                          !.result = "none", !.error = ""]
    /\ UNCHANGED <<http, numpy, ing, hc, ds, race, cx, batch, tvars, aq, index, documents, metadata, index_file,
                   metadata_file, ret, gens>>

\* load_index: self.index = faiss.read_index(index_file)
LoadReadIndex ==
    /\ mut.pc = "l_read_index"
    /\ IF IsNone(index_file) \/ ~Val(index_file).complete
       THEN /\ mut' = Raised(mut, "RuntimeError")
            /\ UNCHANGED <<hc, ds, race, cx, batch, index, gens>>
       ELSE /\ index' = Some(Val(index_file).vectors)
            /\ gens' = [gens EXCEPT !.index = gens.index_file]
            /\ mut' = [mut EXCEPT !.pc = "l_read_meta"]
    /\ UNCHANGED <<http, numpy, ing, hc, ds, race, cx, batch, tvars, aq, documents, metadata, index_file, metadata_file, ret>>

\* load_index: data = pickle.load(metadata_file);
\* self.documents = data['documents'].  No record count is compared.  Of
\* a torn file pickle.load raises (EOFError when it is empty).
LoadReadMeta ==
    /\ mut.pc = "l_read_meta"
    /\ IF IsNone(metadata_file)
       THEN /\ mut' = Raised(mut, "FileNotFoundError")
            /\ UNCHANGED <<hc, ds, race, cx, batch, documents, gens>>
       ELSE IF ~Val(metadata_file).complete
       THEN /\ mut' = Raised(mut, "UnpicklingError")
            /\ UNCHANGED <<hc, ds, race, cx, batch, documents, gens>>
       ELSE /\ documents' = Val(metadata_file).documents
            /\ gens' = [gens EXCEPT !.documents = gens.metadata_file]
            /\ mut' = [mut EXCEPT !.pc = "l_set_metadata",
                                  !.arg = Val(metadata_file).metadata,
                                  !.from = gens.metadata_file]
    /\ UNCHANGED <<http, numpy, ing, hc, ds, race, cx, batch, tvars, aq, index, metadata, index_file, metadata_file, ret>>

\* load_index: self.metadata = data['metadata'], and the return
LoadSetMetadata ==
    /\ mut.pc = "l_set_metadata"
    /\ metadata' = mut.arg
    /\ gens' = [gens EXCEPT !.metadata = mut.from]
    /\ mut' = [Returned(mut) EXCEPT !.arg = << >>, !.from = GenBlank]
    /\ UNCHANGED <<http, numpy, ing, hc, ds, race, cx, batch, tvars, aq, index, documents, index_file, metadata_file, ret>>

\* build_index: self.documents = documents.  A retrieve call that is
\* under way now overlaps this build_index.
BuildIndexCall ==
    /\ mut.pc = "idle"
    /\ mut.ops < MaxOps
    /\ \E inp \in BuildInputs :
          /\ documents' = inp[1]
          /\ mut' = [mut EXCEPT !.pc = "b_set_metadata", !.op = "build", !.ops = @ + 1,
                                !.result = "none", !.error = "", !.arg = inp[2]]
    /\ gens' = [gens EXCEPT !.documents = OpGen(mut.ops + 1)]
    /\ ret' = [ret EXCEPT !.overlap = @ \/ ret.pc # "idle"]
    /\ UNCHANGED <<http, numpy, ing, hc, ds, race, cx, batch, tvars, aq, index, metadata, index_file, metadata_file>>

\* build_index: self.metadata = metadata
BuildSetMetadata ==
    /\ mut.pc = "b_set_metadata"
    /\ metadata' = mut.arg
    /\ gens' = [gens EXCEPT !.metadata = OpGen(mut.ops)]
    /\ mut' = [mut EXCEPT !.pc = "b_embed", !.arg = << >>]
    /\ UNCHANGED <<http, numpy, ing, hc, ds, race, cx, batch, tvars, aq, index, documents, index_file, metadata_file, ret>>

\* build_index: embeddings = self.create_embeddings(documents);
\* dimension = embeddings.shape[1].  The capability may fail, whatever
\* the list; of an empty list it returns an array without a second axis,
\* and shape[1] raises IndexError.
BuildEmbed ==
    /\ mut.pc = "b_embed"
    /\ \/ mut' = Raised(mut, "EmbeddingError")
       \/ /\ Len(documents) = 0
          /\ mut' = Raised(mut, "IndexError")
       \/ /\ Len(documents) > 0
          /\ \E emb \in [1..Len(documents) -> Vectors] :
                mut' = [mut EXCEPT !.pc = "b_new_index", !.emb = emb]
    /\ UNCHANGED <<http, numpy, ing, hc, ds, race, cx, batch, tvars, aq, index, documents, metadata, index_file,
                   metadata_file, ret, gens>>

\* build_index: self.index = faiss.IndexFlatL2(dimension)
BuildNewIndex ==
    /\ mut.pc = "b_new_index"
    /\ index' = Some(<< >>)
    /\ gens' = [gens EXCEPT !.index = GenPartial]
    /\ mut' = [mut EXCEPT !.pc = "b_add"]
    /\ UNCHANGED <<http, numpy, ing, hc, ds, race, cx, batch, tvars, aq, documents, metadata, index_file, metadata_file, ret>>

\* build_index: self.index.add(embeddings)
BuildAdd ==
    /\ mut.pc = "b_add"
    /\ index' = Some(mut.emb)
    /\ gens' = [gens EXCEPT !.index = OpGen(mut.ops)]
    /\ mut' = [mut EXCEPT !.pc = "s_write_index", !.emb = << >>]
    /\ UNCHANGED <<http, numpy, ing, hc, ds, race, cx, batch, tvars, aq, documents, metadata, index_file, metadata_file, ret>>

\* Outcomes of a file write: it runs to its end; the file cannot be
\* opened, and stays as it was; or the write fails after the file was
\* opened for writing, which emptied it, and leaves it torn.
IoOutcomes == {"ok", "error", "torn"}

\* A caller invokes save_index() on the constructed object.
SaveIndexCall ==
    /\ mut.pc = "idle"
    /\ mut.ops < MaxOps
    /\ mut' = [mut EXCEPT !.pc = "s_write_index", !.op = "save", !.ops = @ + 1,
                          !.result = "none", !.error = ""]
    /\ UNCHANGED <<http, numpy, ing, hc, ds, race, cx, batch, tvars, aq, index, documents, metadata, index_file,
                   metadata_file, ret, gens>>

\* save_index: faiss.write_index(self.index, index_file); of an index
\* that is None the call raises before it opens the file.
SaveWriteIndex ==
    /\ mut.pc = "s_write_index"
    /\ \E io \in IoOutcomes :
          IF IsNone(index)
          THEN /\ mut' = Raised(mut, "TypeError")
               /\ UNCHANGED <<index_file, gens>>
          ELSE IF io = "ok"
          THEN /\ index_file' = Some(IndexFile(Val(index)))
               /\ gens' = [gens EXCEPT !.index_file = gens.index]
               /\ mut' = [mut EXCEPT !.pc = "s_write_meta"]
          ELSE IF io = "torn"
          THEN /\ index_file' = Some(TornIndexFile)
               /\ gens' = [gens EXCEPT !.index_file = GenPartial]
               /\ mut' = Raised(mut, "IOError")
          ELSE /\ mut' = Raised(mut, "IOError")
               /\ UNCHANGED <<hc, ds, race, cx, batch, index_file, gens>>
    /\ UNCHANGED <<http, numpy, ing, hc, ds, race, cx, batch, tvars, aq, index, documents, metadata, metadata_file, ret>>

\* save_index: open(metadata_file, 'wb').  The file is emptied when it is
\* opened; when it cannot be opened it stays as it was.
SaveOpenMeta ==
    /\ mut.pc = "s_write_meta"
    /\ \E io \in IoOutcomes \ {"torn"} :
          IF io = "ok"
          THEN /\ metadata_file' = Some(TornPickle)
               /\ gens' = [gens EXCEPT !.metadata_file = GenPartial]
               /\ mut' = [mut EXCEPT !.pc = "s_dump_meta"]
          ELSE /\ mut' = Raised(mut, "IOError")
               /\ UNCHANGED <<metadata_file, gens>>
    /\ UNCHANGED <<http, numpy, ing, hc, ds, race, cx, batch, tvars, aq, index, documents, metadata, index_file, ret>>

\* save_index: pickle.dump({documents, metadata}, f) into the opened file,
\* and the return.  A dump that fails leaves the file torn.  build_index
\* returns with save_index; a save_index called by itself loads nothing.
SaveWriteMeta ==
    /\ mut.pc = "s_dump_meta"
    /\ \E io \in IoOutcomes \ {"error"} :
          IF io = "ok"
          THEN /\ metadata_file' = Some(Pickle(documents, metadata))
               /\ gens' = [gens EXCEPT !.metadata_file = gens.documents]
               /\ mut' = [Returned(mut) EXCEPT
                              !.loaded = IF mut.op = "save" THEN mut.loaded ELSE TRUE]
          ELSE /\ mut' = Raised(mut, "IOError")
               /\ UNCHANGED <<metadata_file, gens>>
    /\ UNCHANGED <<http, numpy, ing, hc, ds, race, cx, batch, tvars, aq, index, documents, metadata, index_file, ret>>

\* The process dies inside save_index and is started again: the new
\* process constructs a new retriever over the files as they are.  The
\* vector file whose write was cut off is as it was (the write had not
\* begun) or torn; the metadata file is as it was before the open, and
\* torn after it.
Crash ==
    /\ mut.pc \in {"s_write_index", "s_write_meta", "s_dump_meta"}
    /\ index' = None
    /\ documents' = << >>
    /\ metadata' = << >>
    /\ \E torn \in BOOLEAN :
          /\ index_file' = IF torn /\ mut.pc = "s_write_index" /\ ~IsNone(index)
                           THEN Some(TornIndexFile) ELSE index_file
          /\ metadata_file' = metadata_file
          /\ gens' = [gens EXCEPT
                         !.index = GenBlank, !.documents = GenBlank,
                         !.metadata = GenBlank,
                         !.index_file = IF torn /\ mut.pc = "s_write_index" /\ ~IsNone(index)
                                        THEN GenPartial ELSE @]
    /\ mut' = [MutIdle EXCEPT !.ops = mut.ops]
    /\ ret' = RetIdle
    /\ UNCHANGED <<http, numpy, ing, hc, ds, race, cx, batch, tvars, aq>>

(***************************************************************************)
(* scripts/ingest_data.py run in a process of its own while this process   *)
(* holds its retriever: main() constructs a DocumentRetriever, which loads *)
(* the vector store it finds, builds an index of the chunks of the         *)
(* documents, and the save_index of its build_index writes the two files   *)
(* of the vector store, one after the other.                               *)
(***************************************************************************)
IngestedStore ==
    [index_file |-> IndexFile(<<0, 1>>),
     metadata_file |-> Pickle(<<Doc1, Doc2>>, <<Meta1, Meta2>>)]

\* load_index raises on the store as it is: both files exist and one of
\* them is torn.
StoreUnreadable ==
    /\ ~IsNone(index_file)
    /\ ~IsNone(metadata_file)
    /\ ~(Val(index_file).complete /\ Val(metadata_file).complete)

\* main: retriever = DocumentRetriever().  An exception of its load_index
\* ends the script, which has written nothing.
Ingest_Retriever ==
    /\ ing.pc = "idle"
    /\ ing' = [ing EXCEPT !.pc = IF StoreUnreadable THEN "failed" ELSE "s_write_index"]
    /\ UNCHANGED <<numpy, http, hc, ds, race, cx, batch, tvars, aq, rvars>>

\* main: retriever.build_index(documents, metadata), up to the
\* faiss.write_index of its save_index
Ingest_WriteIndex ==
    /\ ing.pc = "s_write_index"
    /\ index_file' = Some(IngestedStore.index_file)
    /\ gens' = [gens EXCEPT !.index_file = GenIngest]
    /\ ing' = [ing EXCEPT !.pc = "s_write_meta"]
    /\ UNCHANGED <<numpy, http, hc, ds, race, cx, batch, tvars, aq, index, documents, metadata,
                   metadata_file, mut, ret>>

\* main: the open(metadata_file, 'wb') of that save_index empties the file
Ingest_OpenMeta ==
    /\ ing.pc = "s_write_meta"
    /\ metadata_file' = Some(TornPickle)
    /\ gens' = [gens EXCEPT !.metadata_file = GenPartial]
    /\ ing' = [ing EXCEPT !.pc = "s_dump_meta"]
    /\ UNCHANGED <<numpy, http, hc, ds, race, cx, batch, tvars, aq, index, documents, metadata,
                   index_file, mut, ret>>

\* main: the pickle.dump of that save_index
Ingest_WriteMeta ==
    /\ ing.pc = "s_dump_meta"
    /\ metadata_file' = Some(IngestedStore.metadata_file)
    /\ gens' = [gens EXCEPT !.metadata_file = GenIngest]
    /\ ing' = [ing EXCEPT !.pc = "saved"]
    /\ UNCHANGED <<numpy, http, hc, ds, race, cx, batch, tvars, aq, index, documents, metadata,
                   index_file, mut, ret>>

(***************************************************************************)
(* The thread that calls retrieve(query, top_k), one read of a field per    *)
(* step.  ret records, with what the call returns, the origin (gens) and   *)
(* the length of the index, the chunk list and the metadata list at the    *)
(* moment the call read each,                                              *)
(* whether a build_index was under way at some moment of the call,         *)
(* whether a load_index or build_index had returned when the call began,   *)
(* and the distance from the query to the nearest vector the index held    *)
(* when it was searched.  The result loop reads self.documents and         *)
(* self.metadata anew at every slot: ret.seen_documents and                *)
(* ret.seen_metadata hold what each of these reads saw.                    *)
(***************************************************************************)
Building == mut.op = "build" /\ mut.pc \notin {"idle", "ctor"}

TOP_K_DOCUMENTS == 5
TopKs == {None} \cup {Some(k) : k \in 1..MaxTopK}
EffectiveTopK(top_k) == IF IsNone(top_k) THEN TOP_K_DOCUMENTS ELSE Val(top_k)

\* Outcomes of embedding the query: a vector, or a failure.
EmbedOutcomes == Vectors \cup {-1}

\* The distance from q to the nearest of the stored vectors.
NearestDistance(vecs, q) ==
    IF Len(vecs) = 0 THEN FLT_MAX
    ELSE CHOOSE d \in {L2(vecs[i], q) : i \in 1..Len(vecs)} :
             \A i \in 1..Len(vecs) : d <= L2(vecs[i], q)

\* retrieve: the test `self.index is None` and the default of top_k
RetrieveCall ==
    /\ ret.pc = "idle"
    /\ ~mut.ctor
    /\ \E top_k \in TopKs :
          IF IsNone(index)
          THEN ret' = [RetIdle EXCEPT !.result = "raised", !.error = "ValueError",
                                      !.loaded = mut.loaded]
          ELSE ret' = [RetIdle EXCEPT !.pc = "embed",
                                      !.k = EffectiveTopK(top_k),
                                      !.overlap = Building,
                                      !.loaded = mut.loaded]
    /\ UNCHANGED <<http, numpy, ing, hc, ds, race, cx, batch, tvars, aq, index, documents, metadata, index_file,
                   metadata_file, mut, gens>>

\* retrieve: query_embedding = self.create_embeddings([query])
RetrieveEmbed ==
    /\ ret.pc = "embed"
    /\ \E e \in EmbedOutcomes :
          IF e = -1
          THEN ret' = [ret EXCEPT !.pc = "idle", !.result = "raised",
                                  !.error = "EmbeddingError"]
          ELSE ret' = [ret EXCEPT !.pc = "search", !.q = e]
    /\ UNCHANGED <<http, numpy, ing, hc, ds, race, cx, batch, tvars, aq, index, documents, metadata, index_file,
                   metadata_file, mut, gens>>

\* retrieve: distances, indices = self.index.search(query_embedding, top_k),
\* on the index the field holds now
RetrieveSearch ==
    /\ ret.pc = "search"
    /\ \E order \in SearchOrders(Val(index), ret.q) :
          ret' = [ret EXCEPT
                    !.pc = "valid",
                    !.i = 1,
                    !.hits = faiss_search(Val(index), ret.q, ret.k, order),
                    !.nearest = NearestDistance(Val(index), ret.q),
                    !.g_index = gens.index,
                    !.n_index = Len(Val(index))]
    /\ UNCHANGED <<http, numpy, ing, hc, ds, race, cx, batch, tvars, aq, index, documents, metadata, index_file,
                   metadata_file, mut, gens>>

\* What a read of a list field sees: the origin and the length of the list.
Seen(g, list) == [g |-> g, n |-> Len(list)]

\* retrieve: the loop goes on to the next of the k slots, or, the slots
\* being exhausted, the call returns results.
NextSlot(r) ==
    IF r.i < Len(r.hits) THEN [r EXCEPT !.pc = "valid", !.i = @ + 1]
    ELSE [r EXCEPT !.pc = "idle", !.collected = TRUE, !.result = "ok"]

\* retrieve: an indexing of the loop raised IndexError.
IndexError(r) ==
    [r EXCEPT !.pc = "idle", !.collected = TRUE, !.result = "raised",
              !.error = "IndexError", !.results = << >>, !.doc = ""]

\* retrieve: slot i of zip(distances[0], indices[0]) and the test
\* `if idx < len(self.documents)`
RetrieveValid ==
    /\ ret.pc = "valid"
    /\ LET r == [ret EXCEPT !.seen_documents = @ \cup {Seen(gens.documents, documents)}]
       IN ret' = IF valid_index(ret.hits[ret.i].idx, documents)
                 THEN [r EXCEPT !.pc = "document"]
                 ELSE NextSlot(r)
    /\ UNCHANGED <<http, numpy, ing, hc, ds, race, cx, batch, tvars, aq, index, documents, metadata, index_file,
                   metadata_file, mut, gens>>

\* retrieve: 'document': self.documents[idx]
RetrieveDocument ==
    /\ ret.pc = "document"
    /\ LET idx == ret.hits[ret.i].idx
           r == [ret EXCEPT !.seen_documents = @ \cup {Seen(gens.documents, documents)}]
       IN ret' = IF PyValid(documents, idx)
                 THEN [r EXCEPT !.pc = "metadata", !.doc = PyIndex(documents, idx)]
                 ELSE IndexError(r)
    /\ UNCHANGED <<http, numpy, ing, hc, ds, race, cx, batch, tvars, aq, index, documents, metadata, index_file,
                   metadata_file, mut, gens>>

\* retrieve: 'metadata': self.metadata[idx], the distance and the
\* relevance score, and results.append
RetrieveMetadata ==
    /\ ret.pc = "metadata"
    /\ LET hit == ret.hits[ret.i]
           r == [ret EXCEPT !.seen_metadata = @ \cup {Seen(gens.metadata, metadata)}]
       IN ret' = IF PyValid(metadata, hit.idx)
                 THEN NextSlot([r EXCEPT
                         !.doc = "",
                         !.results = Append(@,
                             [rank            |-> ret.i,
                              document        |-> ret.doc,
                              metadata        |-> PyIndex(metadata, hit.idx),
                              distance        |-> hit.dist,
                              relevance_score |-> Relevance(hit.dist)])])
                 ELSE IndexError(r)
    /\ UNCHANGED <<http, numpy, ing, hc, ds, race, cx, batch, tvars, aq, index, documents, metadata, index_file,
                   metadata_file, mut, gens>>

(***************************************************************************)
(* DocumentRetriever.retrieve and get_context_for_generation as the        *)
(* pipeline calls them: in one thread, start to end.                       *)
(***************************************************************************)
\* retrieve(query, top_k) on the state (idx, docs, meta): e is the outcome
\* of embedding the query, order the ranking faiss chooses.
retrieve(idx, docs, meta, top_k, e, order) ==
    IF IsNone(idx) THEN [raised |-> TRUE, error |-> "ValueError", results |-> << >>]
    ELSE IF e = -1 THEN [raised |-> TRUE, error |-> "EmbeddingError", results |-> << >>]
    ELSE LET hits == faiss_search(Val(idx), e, EffectiveTopK(top_k), order)
         IN IF CollectRaises(hits, docs, meta)
            THEN [raised |-> TRUE, error |-> "IndexError", results |-> << >>]
            ELSE [raised |-> FALSE, error |-> "",
                  results |-> CollectResults(hits, docs, meta)]

\* metadata.get('source', 'Unknown')
get_source(meta) == IF "source" \in DOMAIN meta THEN meta.source ELSE "Unknown"

\* metadata.get('page', None)
get_page(meta) == IF "page" \in DOMAIN meta THEN Some(meta.page) ELSE None

\* f"[Source: {metadata.get('source', 'Unknown')}]\n{doc_text}\n"
formatted_doc(doc) ==
    "[Source: " \o get_source(doc.metadata) \o "]\n" \o doc.document \o "\n"

RECURSIVE context_parts_continues(_, _, _, _)
\* Mutation of context_parts: a block that does not fit is skipped and the
\* loop goes on (continue in place of break).
context_parts_continues(docs, i, len, max_length) ==
    IF i > Len(docs) THEN << >>
    ELSE IF len + Len(formatted_doc(docs[i])) <= max_length
         THEN <<formatted_doc(docs[i])>> \o
              context_parts_continues(docs, i + 1, len + Len(formatted_doc(docs[i])),
                                      max_length)
         ELSE context_parts_continues(docs, i + 1, len, max_length)

RECURSIVE context_parts(_, _, _, _)
\* The loop of get_context_for_generation from result i on: parts is
\* context_parts, len is current_length.
context_parts(docs, i, len, max_length) ==
    IF i > Len(docs) THEN << >>
    ELSE IF len + Len(formatted_doc(docs[i])) <= max_length
         THEN <<formatted_doc(docs[i])>> \o
              context_parts(docs, i + 1, len + Len(formatted_doc(docs[i])), max_length)
         ELSE << >>

RECURSIVE Join(_, _)
\* sep.join(parts)
Join(sep, parts) ==
    IF Len(parts) = 0 THEN ""
    ELSE IF Len(parts) = 1 THEN parts[1]
    ELSE parts[1] \o sep \o Join(sep, Tail(parts))

get_context_for_generation(retrieved_docs, max_length) ==
    Join("\n---\n", context_parts(retrieved_docs, 1, 0, max_length))

\* The default of the max_length parameter.
DEFAULT_MAX_LENGTH == 2048

(***************************************************************************)
(* AnswerGenerator (app/nlp_core/generator.py)                             *)
(***************************************************************************)
RECURSIVE SplitJoin(_, _, _)
\* ' '.join(answer.split()) from character i on, acc being the text
\* built so far: runs of whitespace become one space, none at the ends.
SplitJoin(t, i, acc) ==
    IF i > Len(t) THEN acc
    ELSE IF IsWhitespace(CharAt(t, i)) THEN SplitJoin(t, i + 1, acc)
    ELSE IF i > 1 /\ IsWhitespace(CharAt(t, i - 1)) /\ acc # ""
         THEN SplitJoin(t, i + 1, acc \o " " \o CharAt(t, i))
         ELSE SplitJoin(t, i + 1, acc \o CharAt(t, i))

post_process_answer(answer) ==
    LET a1 == SplitJoin(answer, 1, "")
        a2 == IF a1 # "" /\ IsLower(CharAt(a1, 1))
              THEN ToUpper(CharAt(a1, 1)) \o SubSeq(a1, 2, Len(a1))
              ELSE a1
    IN IF a2 # "" /\ CharAt(a2, Len(a2)) \notin {".", "!", "?"}
       THEN a2 \o "."
       ELSE a2

GENERATION_APOLOGY ==
    "I apologize, but I encountered an error while generating the answer. Please try rephrasing your question."

\* Texts the generation capability decodes to when it succeeds.
RawAnswers == {"ok", " "}
\* Outcomes of generate_answer's use of the capability: the tokenizer
\* raises, model.generate raises, or a text is generated.
GenOutcomes == {"tokenizer_error", "generate_error"} \cup RawAnswers

\* generate_answer(query, context): the tokenizer runs outside the try
\* block, model.generate and the decoding inside it.
generate_answer(gen) ==
    IF gen = "tokenizer_error" THEN [raised |-> TRUE, error |-> "TokenizerError", answer |-> ""]
    ELSE IF gen = "generate_error" THEN [raised |-> FALSE, error |-> "", answer |-> GENERATION_APOLOGY]
    ELSE [raised |-> FALSE, error |-> "", answer |-> post_process_answer(gen)]

(***************************************************************************)
(* QAService.answer_question (app/services/qa_service.py), one stage per   *)
(* step.  aq.calls lists the capability invocations of the run in order,   *)
(* aq.stages the stages it entered, aq.gen the outcome of its generation   *)
(* stage; aq.cap_ok tells whether the translation capability has succeeded *)
(* for any call since the service was constructed; aq.det is the outcome   *)
(* of the detection capability, aq.lang_to and aq.lang_from the language   *)
(* arguments of the two translation calls.                                 *)
(***************************************************************************)
NOT_FOUND_ANSWER ==
    "I couldn't find relevant information to answer your question. Please try rephrasing or ask about a different topic."
PIPELINE_ERROR_ANSWER ==
    "I apologize, but I encountered an error while processing your question. Please try again."

Queries == {" ", "q"}
LangInputs == {None, Some("hi")}
\* Outcomes of the detection capability the server's runs meet.
RunDetectOutcomes == {"hi", "fr", "fail"}

NoResponse ==
    [keys |-> {}, answer |-> "", language |-> "", sources |-> << >>,
     success |-> FALSE, error |-> "", original_query |-> "", english_query |-> ""]

\* The requests the service has taken up: answer_question runs,
\* get_document_summary calls and health_check calls.
Served == aq.run + ds.run + hc.run

AqIdle ==
    [pc |-> "idle", outcome |-> "none", query |-> "", language |-> None,
     top_k |-> None, include_sources |-> FALSE, detected_language |-> "",
     english_query |-> "", retrieved_docs |-> << >>, context |-> "",
     english_answer |-> "", final_answer |-> "", response |-> NoResponse,
     retrieved |-> None, calls |-> << >>, run |-> 0,
     stages |-> << >>, gen |-> "none", cap_ok |-> FALSE,
     det |-> "none", lang_to |-> "none", lang_from |-> "none"]

\* round(x, 3) of the float x, in thousandths: x is rounded on its exact
\* value, so a float beside the middle of two thousandths goes to its own
\* side, and one that is the middle goes to the even thousandth.
Round3(x) ==
    LET q == (1000 * x.num) \div x.den
        r == (1000 * x.num) % x.den
    IN IF 2 * r > x.den THEN q + 1
       ELSE IF 2 * r < x.den THEN q
       ELSE IF x.err > 0 THEN q + 1
       ELSE IF x.err < 0 THEN q
       ELSE q + (q % 2)

_format_sources(retrieved_docs) ==
    [i \in 1..Len(retrieved_docs) |->
        LET doc == retrieved_docs[i]
        IN [rank |-> doc.rank,
            text |-> IF Len(doc.document) > 300
                     THEN SubSeq(doc.document, 1, 300) \o "..."
                     ELSE doc.document,
            source |-> get_source(doc.metadata),
            page |-> get_page(doc.metadata),
            relevance_score |-> Round3(doc.relevance_score)]]

\* Mutation of except_Exception: the exception leaves answer_question.
except_Exception_escapes(a, err) ==
    [a EXCEPT !.pc = "done", !.outcome = "raised"]

\* The except clause of answer_question: the run returns the error
\* response, whose language is `language or "en"`.
except_Exception(a, err) ==
    [a EXCEPT !.pc = "done", !.outcome = "returned",
              !.response = [NoResponse EXCEPT
                  !.keys = {"answer", "language", "success", "error"},
                  !.answer = PIPELINE_ERROR_ANSWER,
                  !.language = IF IsNone(a.language) \/ Val(a.language) = "" THEN "en"
                               ELSE Val(a.language),
                  !.success = FALSE,
                  !.error = err]]

\* The early return of answer_question on an empty result list.
no_results_response(a) ==
    [a EXCEPT !.pc = "done", !.outcome = "returned",
              !.response = [NoResponse EXCEPT
                  !.keys = {"answer", "language", "sources", "success"},
                  !.answer = NOT_FOUND_ANSWER,
                  !.language = a.detected_language,
                  !.sources = << >>,
                  !.success = FALSE]]

\* The lines after the retrieve call: an exception reaches the except
\* clause, an empty list returns the "not found" response, anything else
\* goes on to the context.  retrieved is the number of results returned.
after_retrieve(a, r) ==
    IF r.raised THEN except_Exception(a, r.error)
    ELSE IF Len(r.results) = 0
         THEN no_results_response([a EXCEPT !.retrieved = Some(0)])
         ELSE [a EXCEPT !.pc = "context", !.retrieved_docs = r.results,
                        !.retrieved = Some(Len(r.results))]

AQ_Start ==
    /\ mut.pc = "idle"
    /\ batch.pc = "idle"
    /\ aq.pc \in {"idle", "done"}
    /\ ds.pc \in {"idle", "done"}
    /\ Served < MaxRuns
    /\ \E query \in Queries, language \in LangInputs, top_k \in TopKs,
          include_sources \in BOOLEAN :
          aq' = [AqIdle EXCEPT !.pc = "detect", !.query = query,
                               !.language = language, !.top_k = top_k,
                               !.include_sources = include_sources,
                               !.run = aq.run + 1, !.cap_ok = aq.cap_ok]
    /\ UNCHANGED <<http, numpy, ing, hc, ds, race, cx, batch, tvars, rvars>>

\* answer_question(query) with the defaults of its other parameters.
AQ_StartDefault ==
    /\ mut.pc = "idle"
    /\ batch.pc = "idle"
    /\ aq.pc \in {"idle", "done"}
    /\ ds.pc \in {"idle", "done"}
    /\ Served < MaxRuns
    /\ \E query \in Queries :
          aq' = [AqIdle EXCEPT !.pc = "detect", !.query = query,
                               !.language = None, !.top_k = None,
                               !.include_sources = TRUE,
                               !.run = aq.run + 1, !.cap_ok = aq.cap_ok]
    /\ UNCHANGED <<http, numpy, ing, hc, ds, race, cx, batch, tvars, rvars>>

\* translate_query: source_lang is the caller's, or detect_language(query)
AQ_Detect ==
    /\ aq.pc = "detect"
    /\ IF IsNone(aq.language)
       THEN \E det \in RunDetectOutcomes :
               LET d == detect_language(aq.query, det)
               IN aq' = [aq EXCEPT !.pc = "to_pivot",
                                   !.stages = Append(@, "language"),
                                   !.detected_language = d.result,
                                   !.det = IF d.invoked THEN det ELSE "none",
                                   !.calls = IF d.invoked THEN Append(@, "detect") ELSE @]
       ELSE aq' = [aq EXCEPT !.pc = "to_pivot", !.stages = Append(@, "language"),
                             !.detected_language = Val(aq.language)]
    /\ UNCHANGED <<http, numpy, ing, hc, ds, race, cx, batch, tvars, rvars>>

\* translate_query: english_query = translate_to_english(query, source_lang)
AQ_TranslateToPivot ==
    /\ aq.pc = "to_pivot"
    /\ \E cap \in CapOutcomes :
          LET call == translate_to_english(cache_to, aq.query, aq.detected_language, cap)
          IN /\ cache_to' = call.cache
             /\ aq' = LET a == [aq EXCEPT
                                  !.stages = Append(@, "translate_to_pivot"),
                                  !.lang_to = aq.detected_language,
                                  !.cap_ok = @ \/ (call.invoked /\ cap = "ok"),
                                  !.calls = IF call.invoked THEN Append(@, "translate_to")
                                            ELSE @]
                       IN IF call.raised THEN except_Exception(a, "TranslationError")
                          ELSE [a EXCEPT !.pc = "retrieve", !.english_query = call.result]
    /\ UNCHANGED <<http, numpy, ing, hc, ds, race, cx, batch, cache_from, cap_status, tr_last, rvars>>

\* retrieved_docs = self.retriever.retrieve(english_query, top_k) and the
\* test `if not retrieved_docs`
AQ_Retrieve ==
    /\ aq.pc = "retrieve"
    /\ \E e \in EmbedOutcomes :
       \E order \in IF IsNone(index) \/ e = -1 THEN {<< >>} ELSE SearchOrders(Val(index), e) :
          LET r == retrieve(index, documents, metadata, aq.top_k, e, order)
              called == IF IsNone(index) THEN aq.calls
                        ELSE IF e = -1 THEN Append(aq.calls, "embed")
                        ELSE Append(Append(aq.calls, "embed"), "search")
              a == [aq EXCEPT !.calls = called, !.stages = Append(@, "retrieve")]
          IN aq' = after_retrieve(a, r)
    /\ UNCHANGED <<http, numpy, ing, hc, ds, race, cx, batch, tvars, rvars>>

\* context = self.retriever.get_context_for_generation(retrieved_docs)
AQ_Context ==
    /\ aq.pc = "context"
    /\ aq' = [aq EXCEPT !.pc = "generate", !.stages = Append(@, "context"),
                        !.context = get_context_for_generation(aq.retrieved_docs,
                                                               DEFAULT_MAX_LENGTH)]
    /\ UNCHANGED <<http, numpy, ing, hc, ds, race, cx, batch, tvars, rvars>>

\* Mutation of AQ_Generate: a failed generation is attempted a second time.
AQ_Generate_retries ==
    /\ aq.pc = "generate"
    /\ \E gen \in GenOutcomes :
          LET g == generate_answer(gen)
              a == [aq EXCEPT !.calls = IF gen = "generate_error"
                                        THEN Append(Append(@, "generate"), "generate")
                                        ELSE Append(@, "generate"),
                              !.gen = gen,
                              !.stages = Append(@, "generate")]
          IN aq' = IF g.raised THEN except_Exception(a, g.error)
                   ELSE [a EXCEPT !.pc = "from_pivot", !.english_answer = g.answer]
    /\ UNCHANGED <<http, numpy, ing, hc, ds, race, cx, batch, tvars, rvars>>

\* english_answer = self.generator.generate_answer(english_query, context)
AQ_Generate ==
    /\ aq.pc = "generate"
    /\ \E gen \in GenOutcomes :
          LET g == generate_answer(gen)
              a == [aq EXCEPT !.calls = Append(@, "generate"), !.gen = gen,
                              !.stages = Append(@, "generate")]
          IN aq' = IF g.raised THEN except_Exception(a, g.error)
                   ELSE [a EXCEPT !.pc = "from_pivot", !.english_answer = g.answer]
    /\ UNCHANGED <<http, numpy, ing, hc, ds, race, cx, batch, tvars, rvars>>

\* The capability call the run makes at its stage, if it makes one: the
\* detection call of detect_language, the translation call of a cached
\* translate method that misses its cache and reaches the capability, the
\* embedding call of retrieve, the generation call of generate_answer.
StageCall(a) ==
    IF a.pc = "detect"
    THEN IF IsNone(a.language) /\ detect_language(a.query, "hi").invoked
         THEN Some([call |-> "detect", stage |-> "language"]) ELSE None
    ELSE IF a.pc = "to_pivot"
    THEN IF translate_to_english(cache_to, a.query, a.detected_language, "ok").invoked
         THEN Some([call |-> "translate_to", stage |-> "translate_to_pivot"]) ELSE None
    ELSE IF a.pc = "retrieve"
    THEN IF ~IsNone(index) THEN Some([call |-> "embed", stage |-> "retrieve"]) ELSE None
    ELSE IF a.pc = "generate"
    THEN Some([call |-> "generate", stage |-> "generate"])
    ELSE IF a.pc = "from_pivot"
    THEN IF translate_from_english(cache_from, a.english_answer, a.detected_language,
                                   "ok").invoked
         THEN Some([call |-> "translate_from", stage |-> "translate_from_pivot"])
         ELSE None
    ELSE None

\* A capability call of the run that never returns.  None of the calls is
\* made under a timeout, so the run stays inside it.
AQ_Hang ==
    /\ ~IsNone(StageCall(aq))
    /\ aq' = [aq EXCEPT !.pc = "hung",
                        !.calls = Append(@, Val(StageCall(aq)).call),
                        !.stages = Append(@, Val(StageCall(aq)).stage)]
    /\ UNCHANGED <<http, numpy, ing, hc, ds, race, cx, batch, tvars, rvars>>

\* final_answer = self.translator.translate_answer(english_answer, detected_language)
AQ_TranslateFromPivot ==
    /\ aq.pc = "from_pivot"
    /\ \E cap \in CapOutcomes :
          LET call == translate_from_english(cache_from, aq.english_answer,
                                             aq.detected_language, cap)
          IN /\ cache_from' = call.cache
             /\ aq' = LET a == [aq EXCEPT
                                  !.stages = Append(@, "translate_from_pivot"),
                                  !.lang_from = aq.detected_language,
                                  !.cap_ok = @ \/ (call.invoked /\ cap = "ok"),
                                  !.calls = IF call.invoked THEN Append(@, "translate_from")
                                            ELSE @]
                       IN IF call.raised THEN except_Exception(a, "TranslationError")
                          ELSE [a EXCEPT !.pc = "respond", !.final_answer = call.result]
    /\ UNCHANGED <<http, numpy, ing, hc, ds, race, cx, batch, cache_to, cap_status, tr_last, rvars>>

\* The response dictionary of a completed run, and the return.
AQ_Respond ==
    /\ aq.pc = "respond"
    /\ aq' = [aq EXCEPT
                !.pc = "done", !.outcome = "returned",
                !.stages = Append(@, "respond"),
                !.response = [NoResponse EXCEPT
                    !.keys = {"answer", "language", "original_query", "english_query",
                              "success"}
                             \cup IF aq.include_sources THEN {"sources"} ELSE {},
                    !.answer = aq.final_answer,
                    !.language = aq.detected_language,
                    !.original_query = aq.query,
                    !.english_query = aq.english_query,
                    !.success = TRUE,
                    !.sources = IF aq.include_sources
                                THEN _format_sources(aq.retrieved_docs) ELSE << >>]]
    /\ UNCHANGED <<http, numpy, ing, hc, ds, race, cx, batch, tvars, rvars>>

(***************************************************************************)
(* Direct calls of get_context_for_generation(retrieved_docs, max_length). *)
(* cx holds the arguments and the result of the latest call.               *)
(***************************************************************************)
\* Largest max_length a caller passes.
MaxContextLength == 30
\* Longest result list a caller passes.
MaxResults == 3

\* Chunk texts of two lengths: their formatted blocks are 14 and 16
\* characters long.
CtxTexts == {"a", "bcd"}

\* A retrieve result holding the chunk text.
CtxResult(text, rank) ==
    [rank |-> rank, document |-> text,
     metadata |-> [source |-> "s", chunk_id |-> 0],
     distance |-> 0, relevance_score |-> Relevance(0)]

ResultLists ==
    UNION {{[i \in 1..n |-> CtxResult(texts[i], i)] : texts \in [1..n -> CtxTexts]} :
           n \in 0..MaxResults}

CxIdle == [pc |-> "idle", retrieved_docs |-> << >>, max_length |-> 0, context |-> ""]

\* One call in each behaviour: the function keeps no state between calls.
CallGetContext ==
    /\ cx.pc = "idle"
    /\ \E docs \in ResultLists, max_length \in 0..MaxContextLength :
          cx' = [pc |-> "done", retrieved_docs |-> docs, max_length |-> max_length,
                 context |-> get_context_for_generation(docs, max_length)]
    /\ UNCHANGED <<http, numpy, ing, hc, ds, race, tvars, rvars, aq, batch>>

(***************************************************************************)
(* QAService.batch_answer_questions(queries, language): the loop calls     *)
(* answer_question(query, language) for each query in turn and appends     *)
(* what it returns.  batch.answered lists, for each appended response, the *)
(* position of the query it answers.                                       *)
(***************************************************************************)
\* Longest list of queries a batch holds.
MaxBatch == 2

BatchInputs == UNION {[1..n -> Queries] : n \in 0..MaxBatch}

BatchIdle ==
    [pc |-> "idle", queries |-> << >>, language |-> None, results |-> << >>,
     answered |-> << >>]

\* results = []
Batch_Start ==
    /\ mut.pc = "idle"
    /\ batch.pc = "idle"
    /\ \E queries \in BatchInputs, language \in LangInputs :
          batch' = [BatchIdle EXCEPT !.pc = "loop", !.queries = queries,
                                     !.language = language]
    /\ UNCHANGED <<http, numpy, ing, hc, ds, race, tvars, rvars, aq, cx>>

\* for query in queries: the call self.answer_question(query, language),
\* or, the list being exhausted, return results
Batch_Next ==
    /\ batch.pc = "loop"
    /\ IF Len(batch.answered) < Len(batch.queries)
       THEN /\ batch' = [batch EXCEPT !.pc = "running"]
            /\ aq' = [AqIdle EXCEPT !.pc = "detect",
                                    !.query = batch.queries[Len(batch.answered) + 1],
                                    !.language = batch.language,
                                    !.top_k = None,
                                    !.include_sources = TRUE,
                                    !.run = aq.run + 1, !.cap_ok = aq.cap_ok]
       ELSE /\ batch' = [batch EXCEPT !.pc = "returned"]
            /\ UNCHANGED aq
    /\ UNCHANGED <<http, numpy, ing, hc, ds, race, tvars, rvars, cx>>

\* Mutation of Batch_Append: the loop ends at the first response that
\* reports a failure.
Batch_Append_stops_on_failure ==
    /\ batch.pc = "running"
    /\ aq.pc = "done"
    /\ IF aq.outcome = "raised"
       THEN batch' = [batch EXCEPT !.pc = "raised"]
       ELSE IF ~aq.response.success
       THEN batch' = [batch EXCEPT !.pc = "returned"]
       ELSE batch' = [batch EXCEPT !.pc = "loop",
                                   !.results = Append(@, aq.response),
                                   !.answered = Append(@, Len(@) + 1)]
    /\ UNCHANGED <<http, numpy, ing, hc, ds, race, tvars, rvars, aq, cx>>

\* result = self.answer_question(...) has ended: results.append(result);
\* an exception leaving answer_question would leave the loop and the batch.
Batch_Append ==
    /\ batch.pc = "running"
    /\ aq.pc = "done"
    /\ IF aq.outcome = "raised"
       THEN batch' = [batch EXCEPT !.pc = "raised"]
       ELSE batch' = [batch EXCEPT !.pc = "loop",
                                   !.results = Append(@, aq.response),
                                   !.answered = Append(@, Len(@) + 1)]
    /\ UNCHANGED <<http, numpy, ing, hc, ds, race, tvars, rvars, aq, cx>>

(***************************************************************************)
(* QAService.health_check (app/services/qa_service.py)                     *)
(***************************************************************************)
\* self.generator.model after AnswerGenerator.__init__: the constructor
\* assigns the loaded model or raises.
generator_model_loaded == TRUE

HealthOk == [translator |-> "ok", retriever |-> "ok", generator |-> "ok", overall |-> "ok"]

\* Mutation of health_check: an unloaded index is reported for the
\* retriever and leaves the aggregate as it is.
health_check_keeps_overall(probe_raised, idx, model_loaded) ==
    LET s1 == IF probe_raised
              THEN [HealthOk EXCEPT !.translator = "error: TranslationError",
                                    !.overall = "degraded"]
              ELSE HealthOk
        s2 == IF IsNone(idx)
              THEN [s1 EXCEPT !.retriever = "error: index not loaded"]
              ELSE s1
    IN IF ~model_loaded
       THEN [s2 EXCEPT !.generator = "error: model not loaded", !.overall = "degraded"]
       ELSE s2

\* The status dictionary health_check returns: probe_raised tells whether
\* translate_to_english("test", "en") raised, idx is self.retriever.index,
\* model_loaded tells whether self.generator.model is not None.
health_check(probe_raised, idx, model_loaded) ==
    LET s1 == IF probe_raised
              THEN [HealthOk EXCEPT !.translator = "error: TranslationError",
                                    !.overall = "degraded"]
              ELSE HealthOk
        s2 == IF IsNone(idx)
              THEN [s1 EXCEPT !.retriever = "error: index not loaded",
                              !.overall = "degraded"]
              ELSE s1
    IN IF ~model_loaded
       THEN [s2 EXCEPT !.generator = "error: model not loaded", !.overall = "degraded"]
       ELSE s2

HcIdle ==
    [pc |-> "idle", outcome |-> "none", status |-> HealthOk, index_loaded |-> FALSE,
     run |-> 0]

\* Mutation of HealthCheck: a health check that finds no index loaded reads
\* the index file into the retriever.
HealthCheck_reloads ==
    /\ mut.pc = "idle"
    /\ aq.pc \in {"idle", "done"}
    /\ ds.pc \in {"idle", "done"}
    /\ Served < MaxRuns
    /\ LET probe == translate_to_english(cache_to, "test", "en", "ok")
       IN /\ cache_to' = probe.cache
          /\ hc' = [pc |-> "done", outcome |-> "returned",
                    status |-> health_check(probe.raised, index, generator_model_loaded),
                    index_loaded |-> ~IsNone(index),
                    run |-> hc.run + 1]
    /\ index' = IF IsNone(index) /\ ~IsNone(index_file) /\ Val(index_file).complete
                THEN Some(Val(index_file).vectors) ELSE index
    /\ UNCHANGED <<http, numpy, ing, cache_from, cap_status, tr_last, documents, metadata, index_file,
                   metadata_file, mut, ret, gens, aq, cx, batch, ds, race>>

\* One health_check call of the constructed service.  The translator probe
\* goes through the lru_cache of translate_to_english.
HealthCheck ==
    /\ mut.pc = "idle"
    /\ aq.pc \in {"idle", "done"}
    /\ ds.pc \in {"idle", "done"}
    /\ Served < MaxRuns
    /\ LET probe == translate_to_english(cache_to, "test", "en", "ok")
       IN /\ cache_to' = probe.cache
          /\ hc' = [pc |-> "done", outcome |-> "returned",
                    status |-> health_check(probe.raised, index, generator_model_loaded),
                    index_loaded |-> ~IsNone(index),
                    run |-> hc.run + 1]
    /\ UNCHANGED <<http, numpy, ing, cache_from, cap_status, tr_last, rvars, aq, cx, batch, ds, race>>

(***************************************************************************)
(* QAService.get_document_summary, one stage per step.  ds.calls lists the *)
(* capability invocations of the call in order.                            *)
(***************************************************************************)
\* The default of the max_length parameter of generate_summary.
SUMMARY_MAX_LENGTH == 150

\* AnswerGenerator.generate_summary(text): the tokenizer runs outside the
\* try block; a failure of model.generate returns the truncated text.
generate_summary(text, gen) ==
    IF gen = "tokenizer_error" THEN [raised |-> TRUE, error |-> "TokenizerError", summary |-> ""]
    ELSE IF gen = "generate_error"
    THEN [raised |-> FALSE, error |-> "",
          summary |-> SubSeq(text, 1, Min(SUMMARY_MAX_LENGTH, Len(text))) \o "..."]
    ELSE [raised |-> FALSE, error |-> "", summary |-> post_process_answer(gen)]

DocumentNames == {"const.txt"}

NoSummary == [keys |-> {}, summary |-> "", source |-> "", success |-> FALSE, error |-> ""]

DsIdle ==
    [pc |-> "idle", outcome |-> "none", document_name |-> "", retrieved_docs |-> << >>,
     retrieved |-> None, gen |-> "none", generated |-> "", response |-> NoSummary,
     calls |-> << >>, run |-> 0]

\* The except clause of get_document_summary.
ds_except_Exception(d, err) ==
    [d EXCEPT !.pc = "done", !.outcome = "returned",
              !.response = [NoSummary EXCEPT !.keys = {"summary", "success", "error"},
                                             !.summary = "Error generating summary.",
                                             !.success = FALSE,
                                             !.error = err]]

DS_Start ==
    /\ mut.pc = "idle"
    /\ aq.pc \in {"idle", "done"}
    /\ ds.pc \in {"idle", "done"}
    /\ Served < MaxRuns
    /\ \E name \in DocumentNames :
          ds' = [DsIdle EXCEPT !.pc = "retrieve", !.document_name = name,
                               !.run = ds.run + 1]
    /\ UNCHANGED <<http, numpy, ing, tvars, rvars, aq, cx, batch, hc, race>>

\* retrieved_docs = self.retriever.retrieve(document_name, top_k=3) and the
\* test `if not retrieved_docs`
DS_Retrieve ==
    /\ ds.pc = "retrieve"
    /\ \E e \in EmbedOutcomes :
       \E order \in IF IsNone(index) \/ e = -1 THEN {<< >>} ELSE SearchOrders(Val(index), e) :
          LET r == retrieve(index, documents, metadata, Some(3), e, order)
              called == IF IsNone(index) THEN ds.calls
                        ELSE IF e = -1 THEN Append(ds.calls, "embed")
                        ELSE Append(Append(ds.calls, "embed"), "search")
              d == [ds EXCEPT !.calls = called]
          IN ds' = IF r.raised THEN ds_except_Exception(d, r.error)
                   ELSE IF Len(r.results) = 0
                   THEN [d EXCEPT !.pc = "done", !.outcome = "returned",
                                  !.retrieved = Some(0),
                                  !.response = [NoSummary EXCEPT
                                                   !.keys = {"summary", "success"},
                                                   !.summary = "Document not found.",
                                                   !.success = FALSE]]
                   ELSE [d EXCEPT !.pc = "generate", !.retrieved_docs = r.results,
                                  !.retrieved = Some(Len(r.results))]
    /\ UNCHANGED <<http, numpy, ing, tvars, rvars, aq, cx, batch, hc, race>>

\* full_text = "\n".join(...); summary = self.generator.generate_summary(full_text);
\* the response and the return
DS_Generate ==
    /\ ds.pc = "generate"
    /\ \E gen \in GenOutcomes :
          LET full_text == Join("\n", [i \in 1..Len(ds.retrieved_docs) |->
                                           ds.retrieved_docs[i].document])
              g == generate_summary(full_text, gen)
              d == [ds EXCEPT !.calls = Append(@, "generate"), !.gen = gen]
          IN ds' = IF g.raised THEN ds_except_Exception(d, g.error)
                   ELSE [d EXCEPT !.pc = "done", !.outcome = "returned",
                                  !.generated = g.summary,
                                  !.response = [NoSummary EXCEPT
                                      !.keys = {"summary", "source", "success"},
                                      !.summary = g.summary,
                                      !.source = get_source(ds.retrieved_docs[1].metadata),
                                      !.success = TRUE]]
    /\ UNCHANGED <<http, numpy, ing, tvars, rvars, aq, cx, batch, hc, race>>

(***************************************************************************)
(* Two request threads calling translate_to_english on the shared          *)
(* Translator.  The lru_cache wrapper looks the key up, runs the wrapped   *)
(* function without holding its lock, and then stores the result; other    *)
(* threads run in between.                                                 *)
(***************************************************************************)
Threads == {1, 2}

\* Mutation of lru_store: the result is stored without looking whether the
\* key has been stored meanwhile.
lru_store_unchecked(cache, key, val) ==
    LET kept == IF Len(cache) >= LruMaxsize THEN Tail(cache) ELSE cache
    IN Append(kept, [key |-> key, val |-> val])

\* The wrapper after the wrapped function returned val: a key another
\* thread stored during the call is left as it is; otherwise the result is
\* stored, the least recently used entry of a full cache being evicted.
lru_store(cache, key, val) ==
    IF lru_hit(cache, key) THEN cache
    ELSE LET kept == IF Len(cache) >= LruMaxsize THEN Tail(cache) ELSE cache
         IN Append(kept, [key |-> key, val |-> val])

ThreadIdle ==
    [pc |-> "idle", dir |-> "to", text |-> "", lang |-> "en", cap |-> "none",
     result |-> "", invoked |-> FALSE, hit |-> FALSE, raced |-> FALSE]

RaceIdle == [t \in Threads |-> ThreadIdle]

\* The two cached methods, each with a cache of its own, and the texts
\* the threads call either of them with.
RaceDirs == {"to", "from"}
RaceTexts == ToTexts
RaceCache(dir) == IF dir = "to" THEN cache_to ELSE cache_from
RaceBody(dir, text, lang, cap) ==
    IF dir = "to" THEN translate_to_english_body(text, lang, cap)
    ELSE translate_from_english_body(text, lang, cap)

\* Another thread is inside the same wrapped function for the same key.
RacingOnKey(t, dir, text, lang) ==
    \E u \in Threads \ {t} :
        /\ race[u].pc = "calling"
        /\ race[u].dir = dir
        /\ race[u].text = text
        /\ race[u].lang = lang

\* Thread t calls translate_to_english(text, lang) or
\* translate_from_english(text, lang): the lookup of the wrapper.  A hit
\* returns the stored value; a miss enters the function.
Race_Call(t) ==
    /\ race[t].pc \in {"idle", "done"}
    /\ \E dir \in RaceDirs, lang \in CallLangs, text \in RaceTexts :
          LET key == <<text, lang>>
              cache == RaceCache(dir)
              hit == lru_hit(cache, key)
              i == CachePos(cache, key)
              after == IF hit THEN Append(CacheDrop(cache, i), cache[i]) ELSE cache
          IN /\ cache_to' = IF dir = "to" THEN after ELSE cache_to
             /\ cache_from' = IF dir = "from" THEN after ELSE cache_from
             /\ race' = [race EXCEPT ![t] =
                   IF hit
                   THEN [ThreadIdle EXCEPT !.pc = "done", !.dir = dir,
                                           !.text = text, !.lang = lang,
                                           !.hit = TRUE, !.result = cache[i].val]
                   ELSE [ThreadIdle EXCEPT !.pc = "calling", !.dir = dir,
                                           !.text = text, !.lang = lang,
                                           !.raced = RacingOnKey(t, dir, text, lang)]]
    /\ UNCHANGED <<http, numpy, ing, cap_status, tr_last, rvars, aq, cx, batch, hc, ds>>

\* The wrapped function of thread t returns, and the wrapper stores what
\* it returned.
Race_Return(t) ==
    /\ race[t].pc = "calling"
    /\ \E cap \in CapOutcomes :
          LET dir == race[t].dir
              body == RaceBody(dir, race[t].text, race[t].lang, cap)
              key == <<race[t].text, race[t].lang>>
              after == IF body.raised THEN RaceCache(dir)
                       ELSE lru_store(RaceCache(dir), key, body.result)
          IN /\ cache_to' = IF dir = "to" THEN after ELSE cache_to
             /\ cache_from' = IF dir = "from" THEN after ELSE cache_from
             /\ race' = [race EXCEPT ![t] =
                            [@ EXCEPT !.pc = "done",
                                      !.cap = IF body.invoked THEN cap ELSE "none",
                                      !.invoked = body.invoked,
                                      !.result = body.result]]
    /\ UNCHANGED <<http, numpy, ing, cap_status, tr_last, rvars, aq, cx, batch, hc, ds>>

(***************************************************************************)
(* The HTTP endpoints (app/main.py).  The handlers are coroutines without  *)
(* an await: the server runs one request at a time.  Each handler begins   *)
(* with get_qa_service(), which constructs the QAService when the server   *)
(* holds none; then it starts the service call, whose stages run as above, *)
(* and turns what the call returned into the reply.  An exception of the   *)
(* construction reaches the except clause of the handler, and the server   *)
(* still holds no service.  http.body names what the reply carries,        *)
(* http.status the "status" entry of a /health reply.                      *)
(***************************************************************************)
HttpIdle ==
    [pc |-> "idle", endpoint |-> "none", status_code |-> 0, detail |-> "",
     body_is_result |-> FALSE, body |-> "none", status |-> ""]

\* The default of QuestionRequest.top_k.
ASK_TOP_K == 5

\* raise HTTPException(status_code, detail)
HTTPException(status_code, detail) ==
    [raised |-> TRUE, status_code |-> status_code, detail |-> detail]

\* except Exception as e: raise HTTPException(status_code=500, detail=str(e)).
\* HTTPException is an Exception, so the clause also takes the one raised
\* inside the try block of the same handler.
endpoint_except_Exception(e) == HTTPException(500, "str(e)")

\* The body of the /ask handler after answer_question has ended.
ask_question_endpoint(outcome, result) ==
    IF outcome = "raised" THEN endpoint_except_Exception("service")
    ELSE IF ~result.success
    THEN endpoint_except_Exception(
             HTTPException(500, IF "error" \in result.keys THEN result.error
                                ELSE "Failed to process question"))
    ELSE [raised |-> FALSE, status_code |-> 200, detail |-> ""]

\* The body of the /document-summary handler after get_document_summary
\* has ended.
get_document_summary_endpoint(outcome, result) ==
    IF outcome = "raised" THEN endpoint_except_Exception("service")
    ELSE IF ~result.success
    THEN endpoint_except_Exception(
             HTTPException(404, "Document not found or error generating summary"))
    ELSE [raised |-> FALSE, status_code |-> 200, detail |-> ""]

\* The body of the /batch-ask handler after batch_answer_questions has
\* ended: {"results": results}, or the except clause.
batch_ask_questions_endpoint(outcome) ==
    IF outcome = "raised" THEN endpoint_except_Exception("service")
    ELSE [raised |-> FALSE, status_code |-> 200, detail |-> ""]

\* The "status" entry of the /health reply: status["overall"], or "error"
\* from the except clause, which returns a reply of its own.
health_check_endpoint(outcome, status) ==
    IF outcome = "raised" THEN "error" ELSE status.overall

Reply(endpoint, r) ==
    [pc |-> "replied", endpoint |-> endpoint, status_code |-> r.status_code,
     detail |-> r.detail, body_is_result |-> ~r.raised,
     body |-> IF r.raised THEN "detail" ELSE "result", status |-> ""]

\* The records of the calls that ended with earlier requests are dropped
\* when a request arrives; the counts of the requests served stay.
AqEnded == [AqIdle EXCEPT !.run = aq.run, !.cap_ok = aq.cap_ok]
DsEnded == [DsIdle EXCEPT !.run = ds.run]
HcEnded == [HcIdle EXCEPT !.run = hc.run]

\* Where a handler goes first: into the construction of get_qa_service
\* when qa_service is None, into the service call otherwise.
HandlerEntry == IF mut.ctor THEN "get_qa_service" ELSE "serving"

\* get_qa_service: qa_service is None and QAService() is constructed:
\* Translator(), then DocumentRetriever(), whose steps follow.
get_qa_service ==
    /\ http.pc = "get_qa_service"
    /\ Construct

\* get_qa_service: DocumentRetriever() has returned, AnswerGenerator() loads
\* the tokenizer and the model, the service is stored in qa_service and
\* returned, and the handler calls it.
get_qa_service_returns ==
    /\ http.pc = "get_qa_service"
    /\ mut.pc = "idle"
    /\ ~mut.ctor
    /\ http' = [http EXCEPT !.pc = "serving"]
    /\ aq' = IF aq.pc = "pending" THEN [aq EXCEPT !.pc = "detect"] ELSE aq
    /\ ds' = IF ds.pc = "pending" THEN [ds EXCEPT !.pc = "retrieve"] ELSE ds
    /\ batch' = IF batch.pc = "pending" THEN [batch EXCEPT !.pc = "loop"] ELSE batch
    /\ UNCHANGED <<numpy, ing, tvars, rvars, cx, hc, race>>

\* get_qa_service: QAService() raises, out of DocumentRetriever() or, the
\* retriever constructed, out of AnswerGenerator().  qa_service stays None,
\* the objects constructed so far are dropped, and the except clause of
\* the handler makes the reply.
get_qa_service_raises ==
    /\ http.pc = "get_qa_service"
    /\ \/ mut.pc = "failed"
       \/ mut.pc = "idle" /\ ~mut.ctor
    /\ mut' = MutIdle
    /\ index' = None
    /\ documents' = << >>
    /\ metadata' = << >>
    /\ gens' = [gens EXCEPT !.index = GenBlank, !.documents = GenBlank,
                            !.metadata = GenBlank]
    /\ aq' = AqEnded
    /\ ds' = DsEnded
    /\ hc' = HcEnded
    /\ batch' = BatchIdle
    /\ http' = IF http.endpoint = "health"
               THEN [HttpIdle EXCEPT !.pc = "replied", !.endpoint = "health",
                                     !.status_code = 200, !.body = "components",
                                     !.status = health_check_endpoint("raised", HealthOk)]
               ELSE Reply(http.endpoint, endpoint_except_Exception("QAService"))
    /\ UNCHANGED <<numpy, ing, tvars, cx, race, index_file, metadata_file, ret>>

\* POST /ask: service.answer_question(query, language, top_k, include_sources)
Ask_Request ==
    /\ http.pc \in {"idle", "replied"}
    /\ aq.pc \in {"idle", "done"}
    /\ ds.pc \in {"idle", "done"}
    /\ Served < MaxRuns
    /\ \E query \in Queries, language \in LangInputs, include_sources \in BOOLEAN,
          top_k \in {Some(ASK_TOP_K)} \cup TopKs :
          aq' = [AqIdle EXCEPT !.pc = IF mut.ctor THEN "pending" ELSE "detect",
                               !.query = query,
                               !.language = language, !.top_k = top_k,
                               !.include_sources = include_sources,
                               !.run = aq.run + 1, !.cap_ok = aq.cap_ok]
    /\ http' = [HttpIdle EXCEPT !.pc = HandlerEntry, !.endpoint = "ask"]
    /\ ds' = DsEnded
    /\ hc' = HcEnded
    /\ batch' = BatchIdle
    /\ UNCHANGED <<numpy, ing, tvars, rvars, cx, race>>

\* POST /ask: the test of result["success"], the return and the except clause
Ask_Reply ==
    /\ http.pc = "serving"
    /\ http.endpoint = "ask"
    /\ aq.pc = "done"
    /\ http' = Reply("ask", ask_question_endpoint(aq.outcome, aq.response))
    /\ UNCHANGED <<numpy, ing, tvars, rvars, aq, cx, batch, hc, ds, race>>

\* GET /document-summary/{document_name}: service.get_document_summary(name)
Summary_Request ==
    /\ http.pc \in {"idle", "replied"}
    /\ aq.pc \in {"idle", "done"}
    /\ ds.pc \in {"idle", "done"}
    /\ Served < MaxRuns
    /\ \E name \in DocumentNames :
          ds' = [DsIdle EXCEPT !.pc = IF mut.ctor THEN "pending" ELSE "retrieve",
                               !.document_name = name,
                               !.run = ds.run + 1]
    /\ http' = [HttpIdle EXCEPT !.pc = HandlerEntry, !.endpoint = "summary"]
    /\ aq' = AqEnded
    /\ hc' = HcEnded
    /\ batch' = BatchIdle
    /\ UNCHANGED <<numpy, ing, tvars, rvars, cx, race>>

\* GET /document-summary: the test of result["success"], the return and the
\* except clause
Summary_Reply ==
    /\ http.pc = "serving"
    /\ http.endpoint = "summary"
    /\ ds.pc = "done"
    /\ http' = Reply("summary", get_document_summary_endpoint(ds.outcome, ds.response))
    /\ UNCHANGED <<numpy, ing, tvars, rvars, aq, cx, batch, hc, ds, race>>

\* POST /batch-ask: service.batch_answer_questions(queries, language).  The
\* answer_question runs of the batch count among the MaxRuns runs.
Batch_Request ==
    /\ http.pc \in {"idle", "replied"}
    /\ aq.pc \in {"idle", "done"}
    /\ ds.pc \in {"idle", "done"}
    /\ batch.pc \in {"idle", "returned", "raised"}
    /\ \E queries \in BatchInputs, language \in LangInputs :
          /\ Served + Len(queries) <= MaxRuns
          /\ batch' = [BatchIdle EXCEPT !.pc = IF mut.ctor THEN "pending" ELSE "loop",
                                        !.queries = queries,
                                        !.language = language]
    /\ http' = [HttpIdle EXCEPT !.pc = HandlerEntry, !.endpoint = "batch"]
    /\ aq' = AqEnded
    /\ ds' = DsEnded
    /\ hc' = HcEnded
    /\ UNCHANGED <<numpy, ing, tvars, rvars, cx, race>>

\* POST /batch-ask: the return and the except clause
Batch_Reply ==
    /\ http.pc = "serving"
    /\ http.endpoint = "batch"
    /\ batch.pc \in {"returned", "raised"}
    /\ http' = [Reply("batch", batch_ask_questions_endpoint(batch.pc))
                   EXCEPT !.body = IF batch.pc = "raised" THEN "detail" ELSE "results"]
    /\ UNCHANGED <<numpy, ing, tvars, rvars, aq, cx, batch, hc, ds, race>>

\* GET /health: the request
Health_Get ==
    /\ http.pc \in {"idle", "replied"}
    /\ aq.pc \in {"idle", "done"}
    /\ ds.pc \in {"idle", "done"}
    /\ Served < MaxRuns
    /\ hc' = [HcIdle EXCEPT !.pc = "called", !.run = hc.run + 1]
    /\ http' = [HttpIdle EXCEPT !.pc = HandlerEntry, !.endpoint = "health"]
    /\ aq' = AqEnded
    /\ ds' = DsEnded
    /\ batch' = BatchIdle
    /\ UNCHANGED <<numpy, ing, tvars, rvars, cx, race>>

\* GET /health: status = service.health_check() and the reply
Health_Reply ==
    /\ http.pc = "serving"
    /\ http.endpoint = "health"
    /\ LET probe == translate_to_english(cache_to, "test", "en", "ok")
           status == health_check(probe.raised, index, generator_model_loaded)
       IN /\ cache_to' = probe.cache
          /\ hc' = [pc |-> "done", outcome |-> "returned", status |-> status,
                    index_loaded |-> ~IsNone(index), run |-> hc.run]
          /\ http' = [HttpIdle EXCEPT !.pc = "replied", !.endpoint = "health",
                                      !.status_code = 200, !.body = "components",
                                      !.status = health_check_endpoint("returned", status)]
    /\ UNCHANGED <<numpy, ing, cache_from, cap_status, tr_last, rvars, aq, cx, batch, ds, race>>

\* GET /languages: {"languages": SUPPORTED_LANGUAGES}
Languages_Get ==
    /\ http.pc \in {"idle", "replied"}
    /\ http' = [HttpIdle EXCEPT !.pc = "replied", !.endpoint = "languages",
                                !.status_code = 200, !.body = "languages"]
    /\ UNCHANGED <<numpy, ing, tvars, rvars, aq, cx, batch, hc, ds, race>>

\* GET /: the name, version, description and endpoints of the API
Root_Get ==
    /\ http.pc \in {"idle", "replied"}
    /\ http' = [HttpIdle EXCEPT !.pc = "replied", !.endpoint = "root",
                                !.status_code = 200, !.body = "info"]
    /\ UNCHANGED <<numpy, ing, tvars, rvars, aq, cx, batch, hc, ds, race>>

(***************************************************************************)
(* The ingestion script (scripts/ingest_data.py): DocumentProcessor splits *)
(* the text of a document with langchain's RecursiveCharacterTextSplitter  *)
(* (keep_separator and strip_whitespace at their defaults, True) and       *)
(* labels the chunks.                                                      *)
(***************************************************************************)
\* Largest chunk_size and longest document text of the ingestion runs.
MaxChunkSize == 3
MaxTextLen == 4

\* separators=["\n\n", "\n", ".", "!", "?", ",", " ", ""]
Separators == <<"\n\n", "\n", ".", "!", "?", ",", " ", "">>

\* The (chunk_size, chunk_overlap) pairs a DocumentProcessor is built with.
SplitterConfigs ==
    {c \in (2..MaxChunkSize) \X (0..1) : c[2] < c[1]}

\* Position of the leftmost occurrence of sep in text, 0 if there is none.
FindSep(text, sep) ==
    LET idx == {i \in 1..(Len(text) - Len(sep) + 1) :
                   SubSeq(text, i, i + Len(sep) - 1) = sep}
    IN IF idx = {} THEN 0 ELSE CHOOSE i \in idx : \A j \in idx : i <= j

RECURSIVE re_split(_, _)
\* The pieces of text between the occurrences of sep, left to right.
re_split(text, sep) ==
    LET j == FindSep(text, sep)
    IN IF j = 0 THEN <<text>>
       ELSE <<SubSeq(text, 1, j - 1)>>
            \o re_split(SubSeq(text, j + Len(sep), Len(text)), sep)

\* _split_text_with_regex(text, separator, keep_separator=True): each
\* separator stays at the head of the piece that follows it; the empty
\* separator gives the characters; empty pieces are dropped.
_split_text_with_regex(text, sep) ==
    IF sep = "" THEN [i \in 1..Len(text) |-> CharAt(text, i)]
    ELSE LET p == re_split(text, sep)
             joined == [i \in 1..Len(p) |-> IF i = 1 THEN p[1] ELSE sep \o p[i]]
         IN SelectSeq(joined, LAMBDA x : Len(x) > 0)

\* _join_docs(docs, ""): the joined text stripped, None when it is empty.
_join_docs(docs) ==
    LET t == Strip(Join("", docs))
    IN IF Len(t) = 0 THEN << >> ELSE <<t>>

RECURSIVE DropForOverlap(_, _, _, _, _)
\* The while loop of _merge_splits: pieces leave the head of current_doc
\* until what is left fits the overlap and leaves room for the next piece.
DropForOverlap(cur, total, dlen, chunk_size, chunk_overlap) ==
    IF total > chunk_overlap \/ (total + dlen > chunk_size /\ total > 0)
    THEN DropForOverlap(Tail(cur), total - Len(cur[1]), dlen, chunk_size, chunk_overlap)
    ELSE [cur |-> cur, total |-> total]

\* Mutation of MergeFits: the running total is allowed one character more.
MergeFits_off_by_one(total, dlen, chunk_size) == total + dlen <= chunk_size + 1

\* The test of _merge_splits that the next piece still fits the chunk.
MergeFits(total, dlen, chunk_size) == total + dlen <= chunk_size

RECURSIVE merge_from(_, _, _, _, _, _, _)
\* The for loop of _merge_splits from piece i on.
merge_from(splits, i, docs, cur, total, chunk_size, chunk_overlap) ==
    IF i > Len(splits) THEN docs \o _join_docs(cur)
    ELSE LET d == splits[i]
             flush == ~MergeFits(total, Len(d), chunk_size) /\ Len(cur) > 0
             kept == IF flush
                     THEN DropForOverlap(cur, total, Len(d), chunk_size, chunk_overlap)
                     ELSE [cur |-> cur, total |-> total]
         IN merge_from(splits, i + 1,
                       IF flush THEN docs \o _join_docs(cur) ELSE docs,
                       Append(kept.cur, d), kept.total + Len(d),
                       chunk_size, chunk_overlap)

\* _merge_splits(splits, "")
_merge_splits(splits, chunk_size, chunk_overlap) ==
    merge_from(splits, 1, << >>, << >>, 0, chunk_size, chunk_overlap)

\* Whether separators[i] is the one _split_text takes for the text.
SeparatorFits(text, seps, i) == seps[i] = "" \/ FindSep(text, seps[i]) # 0

RECURSIVE _split_text(_, _, _, _)
RECURSIVE split_loop(_, _, _, _, _, _, _)
\* The for loop of _split_text from piece i on: pieces shorter than
\* chunk_size are collected and merged, a longer one is split again with
\* the separators that remain.
split_loop(splits, i, good, final, new_separators, chunk_size, chunk_overlap) ==
    LET merged == IF Len(good) > 0 THEN _merge_splits(good, chunk_size, chunk_overlap)
                  ELSE << >>
    IN IF i > Len(splits) THEN final \o merged
       ELSE IF Len(splits[i]) < chunk_size
       THEN split_loop(splits, i + 1, Append(good, splits[i]), final, new_separators,
                       chunk_size, chunk_overlap)
       ELSE split_loop(splits, i + 1, << >>,
                       (final \o merged) \o
                           (IF Len(new_separators) = 0 THEN <<splits[i]>>
                            ELSE _split_text(splits[i], new_separators,
                                             chunk_size, chunk_overlap)),
                       new_separators, chunk_size, chunk_overlap)

\* RecursiveCharacterTextSplitter._split_text(text, separators)
_split_text(text, seps, chunk_size, chunk_overlap) ==
    LET fits == {i \in 1..Len(seps) : SeparatorFits(text, seps, i)}
        k == IF fits = {} THEN Len(seps) ELSE CHOOSE i \in fits : \A j \in fits : i <= j
        new_separators == IF fits = {} \/ seps[k] = "" THEN << >>
                          ELSE SubSeq(seps, k + 1, Len(seps))
    IN split_loop(_split_text_with_regex(text, seps[k]), 1, << >>, << >>,
                  new_separators, chunk_size, chunk_overlap)

\* self.text_splitter.split_text(text)
split_text(text, chunk_size, chunk_overlap) ==
    _split_text(text, Separators, chunk_size, chunk_overlap)

\* process_document(file_path), text being what read_pdf / read_txt gave
\* ("" when reading failed).
process_document(name, suffix, text, chunk_size, chunk_overlap) ==
    IF Lower(suffix) \notin {".pdf", ".txt"} THEN << >>
    ELSE IF Len(Strip(text)) = 0 THEN << >>
    ELSE LET chunks == split_text(text, chunk_size, chunk_overlap)
         IN [i \in 1..Len(chunks) |->
                [text |-> chunks[i],
                 metadata |-> [source |-> name \o suffix,
                               chunk_id |-> i - 1,
                               total_chunks |-> Len(chunks),
                               file_path |-> "data/legal_docs/" \o name \o suffix]]]

Alphabet == {"a", " ", ".", "\n", "\t"}

RECURSIVE TextsUpTo(_)
TextsUpTo(n) ==
    IF n = 0 THEN {""}
    ELSE LET shorter == TextsUpTo(n - 1)
         IN shorter \cup {s \o c : s \in shorter, c \in Alphabet}

DocumentTexts == TextsUpTo(MaxTextLen)
Suffixes == {".pdf", ".txt", ".TXT", ".md"}

IngIdle ==
    [pc |-> "idle", chunk_size |-> 0, chunk_overlap |-> 0, suffix |-> "",
     text |-> "", chunk_docs |-> << >>]

\* processor = DocumentProcessor()
Ingest_Construct ==
    /\ ing.pc = "idle"
    /\ \E c \in SplitterConfigs :
          ing' = [IngIdle EXCEPT !.pc = "ready", !.chunk_size = c[1],
                                 !.chunk_overlap = c[2]]
    /\ UNCHANGED <<numpy, http, tvars, rvars, aq, cx, batch, hc, ds, race>>

\* chunks = self.process_document(file_path) for one file of the directory
ProcessDocument ==
    /\ ing.pc = "ready"
    /\ \E suffix \in Suffixes, text \in DocumentTexts :
          ing' = [ing EXCEPT !.pc = "done", !.suffix = suffix, !.text = text,
                             !.chunk_docs = process_document("const", suffix, text,
                                                ing.chunk_size, ing.chunk_overlap)]
    /\ UNCHANGED <<numpy, http, tvars, rvars, aq, cx, batch, hc, ds, race>>

InitAll ==
    /\ InitTranslator
    /\ InitRetriever
    /\ aq = AqIdle
    /\ cx = CxIdle
    /\ batch = BatchIdle
    /\ hc = HcIdle
    /\ ds = DsIdle
    /\ race = RaceIdle
    /\ http = HttpIdle
    /\ ing = IngIdle

\* A Translator object by itself, called directly: no retriever is
\* constructed, and neither the vector store nor NumPy is used.
InitDirect ==
    /\ InitAll
    /\ IsNone(index_file)
    /\ IsNone(metadata_file)
    /\ numpy = 2

NextTranslator ==
    \/ CallTranslateToEnglish
    \/ CallTranslateFromEnglish

SpecTranslator == InitDirect /\ [][NextTranslator]_vars

NextRetriever ==
    \/ Construct
    \/ LoadIndexCall
    \/ LoadReadIndex
    \/ LoadReadMeta
    \/ LoadSetMetadata
    \/ BuildIndexCall
    \/ BuildSetMetadata
    \/ BuildEmbed
    \/ BuildNewIndex
    \/ BuildAdd
    \/ SaveIndexCall
    \/ SaveWriteIndex
    \/ SaveOpenMeta
    \/ SaveWriteMeta
    \/ Crash
    \/ Ingest_Retriever
    \/ Ingest_WriteIndex
    \/ Ingest_OpenMeta
    \/ Ingest_WriteMeta
    \/ RetrieveCall
    \/ RetrieveEmbed
    \/ RetrieveSearch
    \/ RetrieveValid
    \/ RetrieveDocument
    \/ RetrieveMetadata

SpecRetriever == InitAll /\ [][NextRetriever]_vars

\* The server process: QAService() constructs the retriever, which loads
\* the index when both files exist; then answer_question runs one at a
\* time.  build_index is not called in this process.
Next ==
    \/ Construct
    \/ LoadReadIndex
    \/ LoadReadMeta
    \/ LoadSetMetadata
    \/ AQ_Start
    \/ AQ_Detect
    \/ AQ_TranslateToPivot
    \/ AQ_Retrieve
    \/ AQ_Context
    \/ AQ_Generate
    \/ AQ_TranslateFromPivot
    \/ AQ_Respond

Spec == InitAll /\ [][Next]_vars

NextContext == CallGetContext

SpecContext == InitAll /\ [][NextContext]_vars

\* The server process answering one batch: the stages of answer_question
\* run for each query of the batch in turn.
NextBatch ==
    \/ Construct
    \/ LoadReadIndex
    \/ LoadReadMeta
    \/ LoadSetMetadata
    \/ Batch_Start
    \/ Batch_Next
    \/ AQ_Detect
    \/ AQ_TranslateToPivot
    \/ AQ_Retrieve
    \/ AQ_Context
    \/ AQ_Generate
    \/ AQ_TranslateFromPivot
    \/ AQ_Respond
    \/ Batch_Append

SpecBatch == InitAll /\ [][NextBatch]_vars

\* The server process serving health checks, document summaries and
\* questions, one request at a time, MaxRuns requests in all.
NextService ==
    \/ Construct
    \/ LoadReadIndex
    \/ LoadReadMeta
    \/ LoadSetMetadata
    \/ HealthCheck
    \/ DS_Start
    \/ DS_Retrieve
    \/ DS_Generate
    \/ AQ_StartDefault
    \/ AQ_Detect
    \/ AQ_TranslateToPivot
    \/ AQ_Retrieve
    \/ AQ_Context
    \/ AQ_Generate
    \/ AQ_TranslateFromPivot
    \/ AQ_Respond

SpecService == InitAll /\ [][NextService]_vars

\* The server process with capability calls that may never return.  Every
\* stage of a run whose calls return is eventually executed.
NextLive ==
    \/ Construct
    \/ LoadReadIndex
    \/ LoadReadMeta
    \/ LoadSetMetadata
    \/ AQ_StartDefault
    \/ AQ_Detect
    \/ AQ_TranslateToPivot
    \/ AQ_Retrieve
    \/ AQ_Context
    \/ AQ_Generate
    \/ AQ_TranslateFromPivot
    \/ AQ_Respond
    \/ AQ_Hang

StagesFair ==
    /\ WF_vars(AQ_Detect)
    /\ WF_vars(AQ_TranslateToPivot)
    /\ WF_vars(AQ_Retrieve)
    /\ WF_vars(AQ_Context)
    /\ WF_vars(AQ_Generate)
    /\ WF_vars(AQ_TranslateFromPivot)
    /\ WF_vars(AQ_Respond)

SpecLive == InitAll /\ [][NextLive]_vars /\ StagesFair

\* The server process behind its HTTP endpoints.
NextApi ==
    \/ get_qa_service
    \/ get_qa_service_returns
    \/ get_qa_service_raises
    \/ LoadReadIndex
    \/ LoadReadMeta
    \/ LoadSetMetadata
    \/ Ask_Request
    \/ AQ_Detect
    \/ AQ_TranslateToPivot
    \/ AQ_Retrieve
    \/ AQ_Context
    \/ AQ_Generate
    \/ AQ_TranslateFromPivot
    \/ AQ_Respond
    \/ Ask_Reply
    \/ Summary_Request
    \/ DS_Retrieve
    \/ DS_Generate
    \/ Summary_Reply
    \/ Batch_Request
    \/ Batch_Next
    \/ Batch_Append
    \/ Batch_Reply
    \/ Health_Get
    \/ Health_Reply
    \/ Languages_Get
    \/ Root_Get

SpecApi == InitAll /\ [][NextApi]_vars

\* The server process over a vector store built by the ingestion script:
\* chunks of the full chunk size, or one short chunk.
CHUNK_SIZE == 512

RECURSIVE Repeat(_, _)
Repeat(c, n) ==
    IF n = 0 THEN ""
    ELSE IF n % 2 = 0 THEN LET half == Repeat(c, n \div 2) IN half \o half
    ELSE c \o Repeat(c, n - 1)

FullChunk(c) == Repeat(c, CHUNK_SIZE)

IngestedMeta(i) == [source |-> "const.txt", chunk_id |-> i]

IngestedDisks ==
    { [index_file |-> Some(IndexFile(<<0>>)), metadata_file |-> Some(Pickle(<<Doc1>>, <<Meta1>>))],
      [index_file |-> Some(IndexFile(<<0, 0, 0, 1, 1>>)),
       metadata_file |-> Some(Pickle(
           <<FullChunk("a"), FullChunk("b"), FullChunk("c"), FullChunk("d"),
             FullChunk("e")>>,
           [i \in 1..5 |-> IngestedMeta(i - 1)]))] }

InitIngested ==
    /\ InitTranslator
    /\ index = None
    /\ documents = << >>
    /\ metadata = << >>
    /\ \E d \in IngestedDisks :
          /\ index_file = d.index_file
          /\ metadata_file = d.metadata_file
    /\ mut = MutIdle
    /\ ret = RetIdle
    /\ gens = [index |-> GenBlank, documents |-> GenBlank, metadata |-> GenBlank,
               index_file |-> GenDisk, metadata_file |-> GenDisk]
    /\ numpy \in NumpyMajors
    /\ aq = AqIdle
    /\ cx = CxIdle
    /\ batch = BatchIdle
    /\ hc = HcIdle
    /\ ds = DsIdle
    /\ race = RaceIdle
    /\ http = HttpIdle
    /\ ing = IngIdle

NextSources ==
    \/ Construct
    \/ LoadReadIndex
    \/ LoadReadMeta
    \/ LoadSetMetadata
    \/ AQ_StartDefault
    \/ AQ_Detect
    \/ AQ_TranslateToPivot
    \/ AQ_Retrieve
    \/ AQ_Context
    \/ AQ_Generate
    \/ AQ_TranslateFromPivot
    \/ AQ_Respond

SpecSources == InitIngested /\ [][NextSources]_vars

NextIngest ==
    \/ Ingest_Construct
    \/ ProcessDocument

\* The ingestion script splits its documents before it constructs the
\* retriever: the files of the vector store play no part, and the run is
\* taken over an empty directory.
InitIngest ==
    /\ InitAll
    /\ IsNone(index_file)
    /\ IsNone(metadata_file)

SpecIngest == InitIngest /\ [][NextIngest]_vars

NextRace ==
    \/ \E t \in Threads : Race_Call(t)
    \/ \E t \in Threads : Race_Return(t)

SpecRace == InitDirect /\ [][NextRace]_vars

NextDetect == CallDetectLanguage

SpecDetect == InitAll /\ [][NextDetect]_vars

(***************************************************************************)
(* Properties.                                                             *)
(***************************************************************************)
RunDone == aq.pc = "done"
InCalls(c) == c \in Range(aq.calls)

\* C1: every answer_question run, whatever the query, language, top_k and
\* the failures of detection, translation, embedding/search and generation,
\* returns normally, and its response holds an answer, a language and a
\* success flag.
C1_AnswerQuestionAlwaysReturns ==
    RunDone =>
        /\ aq.outcome = "returned"
        /\ {"answer", "language", "success"} \subseteq aq.response.keys

\* A run whose generation stage raised (the tokenizer failed) has returned.
C1_Witness ==
    /\ RunDone
    /\ InCalls("generate")
    /\ aq.response.error = "TokenizerError"

\* C2: a run whose search returned zero results, a search on an index of
\* zero vectors included, ends with the fixed "not found" answer, success
\* false and an empty source list, and invokes neither generation nor the
\* translation from the pivot language.
C2_NoResultsShortCircuits ==
    (RunDone /\ (aq.retrieved = Some(0) \/ (InCalls("search") /\ index = Some(<< >>)))) =>
        /\ aq.outcome = "returned"
        /\ aq.response.answer = NOT_FOUND_ANSWER
        /\ aq.response.success = FALSE
        /\ "sources" \in aq.response.keys
        /\ aq.response.sources = << >>
        /\ ~InCalls("generate")
        /\ ~InCalls("translate_from")

\* A retrieve call that finished, every read of the chunk list and of the
\* metadata list having seen a list of the origin and the length of the
\* index it searched.
RetrieveOnAligned ==
    /\ ret.pc = "idle"
    /\ ret.collected
    /\ \A s \in ret.seen_documents \cup ret.seen_metadata :
          s = [g |-> ret.g_index, n |-> ret.n_index]

OwnMetadata == {<<Doc1, Meta1>>, <<Doc2, Meta2>>}

\* C3: on an index of n chunks search(query, k) returns, without error,
\* exactly min(k, n) results, each a distinct stored chunk paired with its
\* own metadata.
C3_SearchReturnsMinKN ==
    RetrieveOnAligned =>
        /\ ret.result = "ok"
        /\ Len(ret.results) = Min(ret.k, ret.n_index)
        /\ \A i, j \in 1..Len(ret.results) :
              i # j => ret.results[i].document # ret.results[j].document
        /\ \A i \in 1..Len(ret.results) :
              <<ret.results[i].document, ret.results[i].metadata>> \in OwnMetadata

\* C4: after build_index or load_index returned successfully the index holds
\* as many vectors as there are chunk texts and metadata records.
C4_AlignedAfterBuildOrLoad ==
    (mut.pc = "idle" /\ mut.op \in {"load", "build"} /\ mut.result = "ok") =>
        /\ ~IsNone(index)
        /\ Len(Val(index)) = Len(documents)
        /\ Len(documents) = Len(metadata)

\* The two files exist and hold different numbers of records.
ArtifactsDisagree ==
    /\ ~IsNone(index_file)
    /\ ~IsNone(metadata_file)
    /\ Len(Val(index_file).vectors) # Len(Val(metadata_file).documents)

\* C5: load_index on artifacts of different record counts fails with the
\* index-corrupt error and leaves no partially loaded state.
C5_LoadRejectsMismatch ==
    (mut.pc = "idle" /\ mut.op = "load" /\ mut.result # "none" /\ ArtifactsDisagree) =>
        /\ mut.result = "raised"
        /\ mut.error = "IndexCorruptError"
        /\ gens.index = gens.documents
        /\ gens.index = gens.metadata

\* C6: at every moment the two files on disk are a complete pair: both as
\* found, or both written by the same save_index.
C6_ArtifactsSwappedTogether ==
    gens.index_file = gens.metadata_file

\* C7: a retrieve that overlaps a build_index reads the index, the chunk list
\* and the metadata list all from one state of the retriever.
C7_SearchSeesOneState ==
    (ret.pc = "idle" /\ ret.collected /\ ret.overlap) =>
        \A s \in ret.seen_documents \cup ret.seen_metadata : s.g = ret.g_index

TranslateCall == tr_last.fn \in {"to", "from"}
CallDest == IF tr_last.fn = "to" THEN "en" ELSE tr_last.lang

\* C8: the call that follows a failed translation of the same key invokes
\* the capability again and, if it now succeeds, returns the translation.
C8_FailureNotCached ==
    (TranslateCall /\ tr_last.status_before = "fail") =>
        /\ tr_last.invoked
        /\ tr_last.cap = "ok" => tr_last.result = StubTranslation(tr_last.text, CallDest)

\* C9: translating from English to English returns the text itself, for
\* every text, without invoking the capability.
C9_EnglishIdentity ==
    (TranslateCall /\ tr_last.lang = "en") =>
        /\ tr_last.result = tr_last.text
        /\ ~tr_last.invoked

\* C10 as stated: once the capability translated a key, every later call with
\* that key returns the same string and does not invoke the capability.
C10_RepeatNeverInvokes ==
    (TranslateCall /\ tr_last.status_before = "ok") =>
        /\ ~tr_last.invoked
        /\ tr_last.result = StubTranslation(tr_last.text, CallDest)

\* C10 as amended: once the capability translated a key, a later call with
\* that key made while the key's entry is still in the cache returns the
\* same string and does not invoke the capability.
C10_RepeatWhileCached ==
    (TranslateCall /\ tr_last.status_before = "ok" /\ tr_last.cached_before) =>
        /\ ~tr_last.invoked
        /\ tr_last.result = StubTranslation(tr_last.text, CallDest)

\* A repeated call of a translated key was served from the cache.
C10_Witness ==
    /\ TranslateCall
    /\ tr_last.status_before = "ok"
    /\ tr_last.cached_before
    /\ tr_last.result = StubTranslation(tr_last.text, CallDest)
    /\ ~tr_last.invoked

\* The capacity the Translator is constructed with
\* (cache_size = ModelConfig.TRANSLATION_CACHE_SIZE, equal to the maxsize of
\* lru_cache), scaled like maxsize.
TRANSLATION_CACHE_SIZE == LruMaxsize

\* C11: the translation cache, the entries of both directions counted
\* together, never holds more entries than the capacity the Translator was
\* constructed with.
C11_CacheWithinCapacity ==
    Len(cache_to) + Len(cache_from) <= TRANSLATION_CACHE_SIZE

\* C12: a translate call never raises, and a call for which the capability
\* was invoked and failed, source and target being different languages,
\* returns the original text unchanged.
C12_FailureReturnsOriginal ==
    TranslateCall =>
        /\ ~tr_last.raised
        /\ (tr_last.invoked /\ tr_last.cap = "fail" /\ tr_last.lang # "en")
               => tr_last.result = tr_last.text

\* A translate_to_english call whose capability invocation failed.
C12_Witness ==
    /\ tr_last.fn = "to"
    /\ tr_last.invoked
    /\ tr_last.cap = "fail"
    /\ tr_last.lang = "hi"
    /\ tr_last.result = tr_last.text
    /\ tr_last.text # ""

\* The run retrieved at least one result and its generation stage produced
\* an answer.
Answered ==
    /\ ~IsNone(aq.retrieved)
    /\ Val(aq.retrieved) > 0
    /\ aq.gen \in {"generate_error"} \cup RawAnswers

\* C13: while the translation capability has never succeeded, a run for a
\* query in a language other than English that retrieved results completes
\* successfully, its English query is the original query text and its
\* final answer is the English answer of the generation stage.
C13_DegradesToOriginal ==
    (RunDone /\ ~aq.cap_ok /\ aq.detected_language # "en" /\ Answered) =>
        /\ aq.outcome = "returned"
        /\ aq.response.success
        /\ aq.english_query = aq.query
        /\ aq.response.english_query = aq.query
        /\ aq.final_answer = aq.english_answer
        /\ aq.response.answer = aq.english_answer

\* C14: a run whose generation capability failed, in the preparation of the
\* model input or in the generation, returns a response that carries the
\* generation apology (translated to the user's language or not) and not
\* the generic pipeline-error response.
C14_GenerationFailureAbsorbed ==
    (RunDone /\ aq.gen \in {"tokenizer_error", "generate_error"}) =>
        /\ aq.outcome = "returned"
        /\ aq.english_answer = GENERATION_APOLOGY
        /\ aq.response.answer = aq.final_answer
        /\ aq.response.answer # PIPELINE_ERROR_ANSWER
        /\ "error" \notin aq.response.keys

\* Errors of the storage layer: the index is not loaded, or its lists do
\* not fit the vectors.
StorageErrors == {"ValueError", "IndexError"}

\* C15: a run reports success = false only when retrieval returned no
\* result or the storage layer failed; never because a capability
\* (embedding, translation, generation) failed.
C15_FailureOnlyFromStorage ==
    (RunDone /\ aq.outcome = "returned" /\ ~aq.response.success) =>
        \/ aq.retrieved = Some(0)
        \/ aq.response.error \in StorageErrors

\* C16: a retrieve call on a retriever on which no load_index and no
\* build_index has returned raises the index-not-loaded error (ValueError).
C16_RetrieveBeforeLoadRaises ==
    (ret.pc = "idle" /\ ret.result # "none" /\ ~ret.loaded) =>
        /\ ret.result = "raised"
        /\ ret.error = "ValueError"

\* C17: the context get_context_for_generation returns, separators
\* included, is never longer than max_length.
C17_ContextWithinMaxLength ==
    cx.pc = "done" => Len(cx.context) <= cx.max_length

RECURSIVE BlocksLength(_, _)
\* The summed length of the formatted blocks of the first n results.
BlocksLength(docs, n) ==
    IF n = 0 THEN 0 ELSE BlocksLength(docs, n - 1) + Len(formatted_doc(docs[n]))

\* The context made of the whole blocks of the first n results.
PrefixContext(docs, n) ==
    Join("\n---\n", [i \in 1..n |-> formatted_doc(docs[i])])

\* C18: the context is made of the whole formatted blocks of a prefix of
\* the results, in rank order: the longest prefix whose blocks fit the
\* budget together.  The first block that does not fit and every later
\* result are left out, and the context is empty when the first block
\* alone exceeds max_length.
C18_ContextIsGreedyPrefix ==
    cx.pc = "done" =>
        \E n \in 0..Len(cx.retrieved_docs) :
            /\ BlocksLength(cx.retrieved_docs, n) <= cx.max_length
            /\ n < Len(cx.retrieved_docs)
                   => BlocksLength(cx.retrieved_docs, n + 1) > cx.max_length
            /\ cx.context = PrefixContext(cx.retrieved_docs, n)
            /\ (n = 0 => cx.context = "")

\* A call that kept the first block, dropped the second, which did not
\* fit, and with it the third, which would have fitted.
C18_Witness ==
    /\ cx.pc = "done"
    /\ Len(cx.retrieved_docs) = 3
    /\ cx.context = formatted_doc(cx.retrieved_docs[1])
    /\ Len(formatted_doc(cx.retrieved_docs[1])) + Len(formatted_doc(cx.retrieved_docs[3]))
           <= cx.max_length

\* The stages of answer_question and its capability calls, in the order of
\* the code.
StageOrder ==
    <<"language", "translate_to_pivot", "retrieve", "context", "generate",
      "translate_from_pivot", "respond">>
CallOrder ==
    <<"detect", "translate_to", "embed", "search", "generate", "translate_from">>

\* The position of x in order, a list without repetitions.
PosIn(x, order) == CHOOSE i \in 1..Len(order) : order[i] = x

\* s lists some of the elements of order, each at most once, in the order
\* of order.
InOrderOnce(s, order) ==
    /\ \A i \in 1..Len(s) : s[i] \in Range(order)
    /\ \A i \in 1..(Len(s) - 1) : PosIn(s[i], order) < PosIn(s[i + 1], order)

\* C19: within one run the stages are entered in the order language,
\* translate to pivot, retrieve, context, generate, translate from pivot,
\* respond, none skipped and none entered twice, and each capability
\* (detect, translate to pivot, embed, search, generate, translate from
\* pivot) is called at most once, in that order.
C19_StagesInOrderOnce ==
    /\ Len(aq.stages) <= Len(StageOrder)
    /\ aq.stages = SubSeq(StageOrder, 1, Len(aq.stages))
    /\ InOrderOnce(aq.calls, CallOrder)

\* A run that went through every stage and called every capability.
C19_Witness ==
    /\ RunDone
    /\ aq.stages = StageOrder
    /\ aq.calls = CallOrder

\* C20: a batch returns normally, with one response per query, the i-th
\* response answering the i-th query, whatever the outcome of each run.
C20_BatchOneResponsePerQuery ==
    batch.pc \in {"returned", "raised"} =>
        /\ batch.pc = "returned"
        /\ Len(batch.results) = Len(batch.queries)
        /\ batch.answered = [i \in 1..Len(batch.queries) |-> i]
        /\ \A i \in 1..Len(batch.results) :
              /\ {"answer", "language", "success"} \subseteq batch.results[i].keys
              /\ batch.results[i].success
                     => batch.results[i].original_query = batch.queries[i]

\* A batch whose first query failed and whose second query was answered.
C20_Witness ==
    /\ batch.pc = "returned"
    /\ Len(batch.results) = 2
    /\ ~batch.results[1].success
    /\ batch.results[2].success

\* health_check returns, with a status for the translator, the retriever
\* and the generator and an aggregate that is "ok" exactly when the three
\* are "ok" and "degraded" otherwise; an index that is not loaded makes
\* the retriever status and the aggregate not ok.
HealthOfService ==
    hc.pc = "done" =>
        /\ hc.outcome = "returned"
        /\ hc.status.overall \in {"ok", "degraded"}
        /\ hc.status.overall = "ok" <=>
               /\ hc.status.translator = "ok"
               /\ hc.status.retriever = "ok"
               /\ hc.status.generator = "ok"
        /\ ~hc.index_loaded => (hc.status.retriever # "ok" /\ hc.status.overall # "ok")
        /\ hc.index_loaded => hc.status.retriever = "ok"

\* The /health endpoint has replied.
HealthReplied == http.pc = "replied" /\ http.endpoint = "health"

\* C21 as stated: every health check, the reply of the /health endpoint
\* included, carries a status for the translator, the retriever and the
\* generator and an aggregate that is "ok" exactly when the three are "ok"
\* and "degraded" otherwise.
C21_HealthAggregate ==
    /\ HealthOfService
    /\ HealthReplied =>
          /\ hc.pc = "done"
          /\ http.status = hc.status.overall
          /\ http.status \in {"ok", "degraded"}

\* C21 as amended: the health_check of a constructed service returns as
\* stated, and the /health endpoint replies with its aggregate; when the
\* service cannot be constructed the endpoint replies with status "error"
\* and no component status, and the server holds no service.
C21_HealthAggregateOrError ==
    /\ HealthOfService
    /\ HealthReplied =>
          IF hc.pc = "done"
          THEN /\ http.status = hc.status.overall
               /\ ~mut.ctor
          ELSE /\ http.status = "error"
               /\ hc.pc = "idle"
               /\ mut.ctor
               /\ IsNone(index)

\* The /health endpoint replied for a service whose index is not loaded.
C21_Witness ==
    /\ HealthReplied
    /\ http.status = "degraded"
    /\ hc.pc = "done"
    /\ ~hc.index_loaded
    /\ hc.status.retriever = "error: index not loaded"
    /\ hc.status.overall = "degraded"

\* C26: build_index called with an empty chunk list fails with the
\* index-build error.
C26_EmptyBuildRejected ==
    (mut.pc = "idle" /\ mut.op = "build" /\ Len(documents) = 0) =>
        /\ mut.result = "raised"
        /\ mut.error = "IndexBuildError"

\* C27: a retriever that was constructed, or asked to load, with one of the
\* two files missing surfaced an error to its caller.
C27_MissingArtifactSurfaces ==
    (mut.pc = "idle" /\ mut.op \in {"none", "load"}
        /\ (IsNone(index_file) \/ IsNone(metadata_file))) =>
        mut.result = "raised"

DsCalled(c) == c \in Range(ds.calls)

\* C30: get_document_summary returns normally and calls neither detection
\* nor translation; when retrieval gave no result it returns success false
\* without calling generation, and otherwise it returns, with success true,
\* a summary labelled with the source of the top-ranked result.
C30_SummaryBypassesTranslation ==
    ds.pc = "done" =>
        /\ ds.outcome = "returned"
        /\ Range(ds.calls) \subseteq {"embed", "search", "generate"}
        /\ IF ~IsNone(ds.retrieved) /\ Val(ds.retrieved) > 0
           THEN /\ ds.response.success
                /\ ds.response.keys = {"summary", "source", "success"}
                /\ ds.response.source = ds.retrieved_docs[1].metadata.source
           ELSE /\ ~ds.response.success
                /\ ~DsCalled("generate")

\* C24: detect_language returns en, hi or mr: the detected code when it is
\* one of the three, and en for a blank text, for any other detected code
\* and when the detection capability fails.
C24_DetectReturnsSupported ==
    tr_last.fn = "detect" =>
        /\ ~tr_last.raised
        /\ tr_last.result \in SupportedLangs
        /\ IF ~IsBlank(tr_last.text) /\ tr_last.cap \in SupportedLangs
           THEN tr_last.result = tr_last.cap
           ELSE tr_last.result = "en"

\* A detection of an unsupported language came back as en.
C24_Witness ==
    /\ tr_last.fn = "detect"
    /\ tr_last.invoked
    /\ tr_last.cap = "fr"
    /\ tr_last.result = "en"

\* C25: the language stage never fails.  With a language from the caller,
\* detection is not invoked and that language is passed to both translation
\* calls and reported in the response; without one, the language passed
\* and reported is the result of detect_language.
C25_LanguageUsedAndReported ==
    RunDone =>
        LET lang == IF IsNone(aq.language)
                    THEN detect_language(aq.query, aq.det).result
                    ELSE Val(aq.language)
        IN /\ Len(aq.stages) >= 2
           /\ ~IsNone(aq.language) => ~InCalls("detect")
           /\ aq.lang_to = lang
           /\ aq.lang_from \in {"none", lang}
           /\ aq.outcome = "returned" => aq.response.language = lang

\* The fraction a is at least the fraction b.
FracGeq(a, b) == a.num * b.den >= b.num * a.den

\* C28: the results of a retrieve that returned are in the order of
\* non-decreasing distance, so of non-increasing relevance, and the first
\* of them is at the distance of the nearest stored vector.
C28_ResultsByDistance ==
    (ret.pc = "idle" /\ ret.collected /\ ret.result = "ok") =>
        /\ \A i \in 1..(Len(ret.results) - 1) :
              /\ ret.results[i].distance <= ret.results[i + 1].distance
              /\ FracGeq(ret.results[i].relevance_score, ret.results[i + 1].relevance_score)
              /\ ret.results[i].rank < ret.results[i + 1].rank
        /\ Len(ret.results) > 0 => ret.results[1].distance = ret.nearest

\* What a call of a cached translate method may return for the text.
TranslateResults(dir, text, lang) ==
    IF IsBlank(text) THEN {""}
    ELSE IF lang = "en" THEN {text}
    ELSE {StubTranslation(text, IF dir = "to" THEN "en" ELSE lang), text}

NoDuplicateKeys(cache) ==
    \A i, j \in 1..Len(cache) : i # j => cache[i].key # cache[j].key

\* Each caller that returned received a result of translating its own
\* text: the translation when its own capability call succeeded.
CallersServed ==
    \A t \in Threads :
          race[t].pc = "done" =>
              /\ race[t].result
                     \in TranslateResults(race[t].dir, race[t].text, race[t].lang)
              /\ (race[t].invoked /\ race[t].cap = "ok")
                     => race[t].result
                            = StubTranslation(race[t].text,
                                  IF race[t].dir = "to" THEN "en" ELSE race[t].lang)

\* The (text, sourceLang, targetLang) keys of the entries the translation
\* cache holds, those of both methods in one sequence.
SharedCacheKeys ==
    [i \in 1..Len(cache_to) |-> <<cache_to[i].key[1], cache_to[i].key[2], "en">>]
    \o [i \in 1..Len(cache_from) |-> <<cache_from[i].key[1], "en", cache_from[i].key[2]>>]

\* C22 as stated: with two threads calling the cached translate methods at
\* once, the translation cache holds at most one entry for each
\* (text, sourceLang, targetLang) key, it holds no more entries than its
\* capacity, the entries of both methods counted together, and each caller
\* receives a result of translating its own text.
C22_RaceLeavesCacheConsistent ==
    /\ \A i, j \in 1..Len(SharedCacheKeys) :
          i # j => SharedCacheKeys[i] # SharedCacheKeys[j]
    /\ Len(cache_to) + Len(cache_from) <= TRANSLATION_CACHE_SIZE
    /\ CallersServed

\* C22 as amended: with two threads calling the cached translate methods
\* at once, on the same key or not, the cache of each method holds at most
\* one entry for each of its keys and at most its own maxsize entries, and
\* each caller receives a result of translating its own text: the
\* translation when its own capability call succeeded.
C22_RaceLeavesEachCacheConsistent ==
    /\ NoDuplicateKeys(cache_to)
    /\ NoDuplicateKeys(cache_from)
    /\ Len(cache_to) <= LruMaxsize
    /\ Len(cache_from) <= LruMaxsize
    /\ CallersServed

\* Two calls of the same key overlapped, both invoked the capability, and
\* the cache holds the key once.
C22_Witness ==
    /\ race[1].pc = "done"
    /\ race[2].pc = "done"
    /\ race[1].dir = race[2].dir
    /\ race[1].text = race[2].text
    /\ race[1].lang = race[2].lang
    /\ race[1].invoked
    /\ race[2].invoked
    /\ race[1].raced \/ race[2].raced
    /\ <<race[1].text, race[1].lang>> \in CacheKeys(RaceCache(race[1].dir))

\* C23: every answer_question run that was started eventually returns a
\* response, also when a capability call of the run never returns.
C23_RunEventuallyReturns == (aq.pc = "detect") ~> (aq.pc = "done")

\* A run none of whose capability calls hangs eventually returns.
RunReturnsOrHangs == (aq.pc = "detect") ~> (aq.pc \in {"done", "hung"})

\* A step of answer_question, get_document_summary or health_check.
ServingStep == aq' # aq \/ ds' # ds \/ hc' # hc

\* C29: no step of answer_question, get_document_summary or health_check
\* changes the retriever's index, chunk list or metadata list, or the two
\* persisted files.
C29_ServingLeavesIndexUnchanged ==
    [][ServingStep => UNCHANGED <<index, documents, metadata, index_file,
                                  metadata_file>>]_vars

\* A question was answered from a loaded index, and a summary or a health
\* check was served as well.
C29_Witness ==
    /\ ~IsNone(index)
    /\ aq.pc = "done"
    /\ aq.outcome = "returned"
    /\ aq.response.success
    /\ \/ ds.pc = "done" /\ ds.response.success
       \/ hc.pc = "done"

\* C35: in every terminal state of an answer_question run, the error
\* response included, the language of the response is the language the
\* language stage of the run determined.
C35_LanguageSameInEveryTerminal ==
    (RunDone /\ aq.outcome = "returned") =>
        aq.response.language = aq.detected_language

\* C36: the ranks of the results a retrieve returned are 1, 2, ...,
\* len(results) in list order, whatever the index state and k.
C36_RanksAreConsecutive ==
    (ret.pc = "idle" /\ ret.collected /\ ret.result = "ok") =>
        \A i \in 1..Len(ret.results) : ret.results[i].rank = i

\* A build_index call of the retriever ended with an exception.
BuildFailed == mut.pc = "idle" /\ mut.op = "build" /\ mut.result = "raised"

\* C37: after a build_index call that failed, the index, the chunk list and
\* the metadata list of the retriever are those of the load or build before
\* it: none of them comes from the failed call.
C37_FailedBuildKeepsState ==
    BuildFailed =>
        /\ gens.index \notin {OpGen(mut.ops), GenPartial}
        /\ gens.documents # OpGen(mut.ops)
        /\ gens.metadata # OpGen(mut.ops)

\* C32: the /document-summary endpoint replies with status 404 when
\* get_document_summary reported success false and with the summary result
\* otherwise.
C32_SummaryEndpoint404 ==
    (http.pc = "replied" /\ http.endpoint = "summary" /\ ds.pc = "done") =>
        IF ds.response.success
        THEN http.status_code = 200 /\ http.body_is_result
        ELSE http.status_code = 404

\* C33: the /ask endpoint replies to every terminal state of the run with
\* the response object of answer_question; a run that found no results is
\* delivered as that object, with success false, and not as an HTTP error.
C33_AskDeliversEveryTerminal ==
    (http.pc = "replied" /\ http.endpoint = "ask" /\ aq.pc = "done") =>
        /\ http.status_code = 200
        /\ http.body_is_result

\* C34: every source listed in a successful response is a chunk whose
\* block is in the context the generator was given: the context holds the
\* blocks of the results up to that source's position at least.
C34_SourcesWereInContext ==
    (RunDone /\ aq.outcome = "returned" /\ aq.response.success) =>
        \A i \in 1..Len(aq.response.sources) :
            \E n \in i..Len(aq.retrieved_docs) :
                aq.context = PrefixContext(aq.retrieved_docs, n)

\* C31: every chunk made for a document is at most chunk_size characters
\* long, and the chunks carry the indices 0..total-1 in order, with
\* total_chunks the number of chunks of the document.
C31_ChunksBoundedAndNumbered ==
    ing.pc = "done" =>
        \A i \in 1..Len(ing.chunk_docs) :
            /\ Len(ing.chunk_docs[i].text) <= ing.chunk_size
            /\ ing.chunk_docs[i].metadata.chunk_id = i - 1
            /\ ing.chunk_docs[i].metadata.total_chunks = Len(ing.chunk_docs)

\* A document longer than the chunk size was split into several chunks, one
\* of them of the full chunk size.
C31_Witness ==
    /\ ing.pc = "done"
    /\ Len(ing.text) > ing.chunk_size
    /\ Len(ing.chunk_docs) >= 2
    /\ \E i \in 1..Len(ing.chunk_docs) :
          Len(ing.chunk_docs[i].text) = ing.chunk_size
====
